---- MODULE Spec2Model ----
(***************************************************************************)
(* A model of pinia-plugin-uni-persist (src/src/index.ts): the codec       *)
(* (safeStringify / safeParse), the projector (pick), the key resolver     *)
(* (getFullKey), and the three things createUniPersistPlugin installs on a *)
(* store: the restore step, the $subscribe callback and the $reset wrapper.*)
(*                                                                         *)
(* JavaScript values are tagged records.  A JavaScript string is the        *)
(* sequence of its UTF-16 code units, so the JSON text the codec produces  *)
(* and parses is the real text, code unit by code unit.  A number is its   *)
(* decimal: the digits Number::toString prints and their exponent.         *)
(***************************************************************************)
EXTENDS Integers, Sequences, FiniteSets, Bags, TLC

VARIABLES
    cfg,        \* the store definition and plugin options (fixed per run)
    phase,      \* "created" | "attached" | "crashed"
    state,      \* the store's in-memory state: an object value
    storage,    \* the uni storage backend: a function from keys to strings
    inflight,   \* the uni.setStorage calls dispatched and not yet completed (a bag)
    pending,    \* a 'post' watcher job is queued for the end of the tick
    installed,  \* what the plugin installed on the store
    last,       \* the handler that ran in the last step
    log,        \* what that handler did, in order
    threw,      \* whether that handler let an exception escape
    steps,      \* number of application steps taken (bounded)
    storage0,   \* history: what the backend would hold had the plugin never
                \* acted: its content when the store was created, less what
                \* clearStore and clearAll removed
    sinceReset, \* history: "no", or how the last $reset went ("aborted": the
                \* original reset threw; else its removals "clean" | "failed")
                \* while no assignment has followed it
    failedBefore, \* history: the strategies whose setStorageSync threw in an
                \* earlier notification
    tick,       \* history: what happened in the current tick, in order
    cin,        \* codec specification: the value given to the codec
    cjson,      \* codec specification: safeStringify's output
    cout,       \* codec specification: safeParse's output
    cpc,        \* codec specification: position
    pin,        \* projector specification: the snapshot and the strategy
    pout,       \* projector specification: pick's result
    ppc         \* projector specification: position

codecVars == <<cin, cjson, cout, cpc>>
pickVars == <<pin, pout, ppc>>

vars == <<cfg, phase, state, storage, inflight, pending, installed, last, log, threw,
          steps, storage0, sinceReset, failedBefore, tick, codecVars, pickVars>>

(***************************************************************************)
(* JavaScript values                                                       *)
(***************************************************************************)
Undefined == [t |-> "undefined"]
JsNull == [t |-> "null"]
JsBool(b) == [t |-> "boolean", b |-> b]

\* the code unit of each printable ASCII character a literal of this module
\* can hold (U+0020 to U+007E without U+0060)
CodeTable ==
    LET printable == " !\"#$%&'()*+,-./0123456789:;<=>?@ABCDEFGHIJKLMNOPQRSTUVWXYZ[\\]^_abcdefghijklmnopqrstuvwxyz{|}~"
    IN [c \in {SubSeq(printable, i, i) : i \in 1..Len(printable)} |->
           LET i == CHOOSE j \in 1..Len(printable) : SubSeq(printable, j, j) = c
           IN IF i <= 64 THEN i + 31 ELSE i + 32]

\* the JavaScript string a literal writes: the sequence of its UTF-16 code units
Txt(lit) == [i \in 1..Len(lit) |-> CodeTable[SubSeq(lit, i, i)]]

\* a string value; s is the sequence of its code units (integers 0..65535)
JsStr(s) == [t |-> "string", s |-> s]

\* the finite number d * 10^e (negated when neg), d a sequence of decimal
\* digits, in its one form: no zero in front of d or at its end, and zero is
\* the empty sequence (-0 is written and compared as 0)
RECURSIVE JsNumber(_, _, _)
JsNumber(neg, d, e) ==
    IF d = <<>> THEN [t |-> "number", neg |-> FALSE, d |-> <<>>, e |-> 0]
    ELSE IF d[1] = 0 THEN JsNumber(neg, Tail(d), e)
    ELSE IF d[Len(d)] = 0 THEN JsNumber(neg, SubSeq(d, 1, Len(d) - 1), e + 1)
    ELSE [t |-> "number", neg |-> neg, d |-> d, e |-> e]

\* Infinity and -Infinity
JsInfinity(neg) == [t |-> "number", neg |-> neg, inf |-> TRUE]

\* Number.prototype.toString / BigInt.prototype.toString for a natural number
RECURSIVE NatToStr(_)
NatToStr(n) ==
    IF n < 10 THEN <<n + 48>> ELSE Append(NatToStr(n \div 10), (n % 10) + 48)

\* the number of an integer
JsNum(n) ==
    JsNumber(n < 0, [i \in 1..Len(NatToStr(IF n < 0 THEN -n ELSE n)) |->
                        NatToStr(IF n < 0 THEN -n ELSE n)[i] - 48], 0)
JsBig(n) == [t |-> "bigint", n |-> n]
MsPerDay == 86400000
\* a Date with a valid time value: day days and ms milliseconds after the epoch,
\* 0 <= ms < MsPerDay (one integer cannot hold the time values of today)
JsDateAt(day, ms) == [t |-> "date", day |-> day, ms |-> ms]
\* a Date with a valid time value, ms milliseconds after the epoch
JsDate(ms) == JsDateAt(ms \div MsPerDay, ms % MsPerDay)
\* a Date whose time value is NaN (new Date("garbage"))
InvalidDate == [t |-> "invaliddate"]
\* new Date(str) for a string outside the date-time format of the language, or
\* one in local time: the host's fallback parser and time zone decide
HostDate(str) == [t |-> "hostdate", s |-> str]
\* a property: name and value
Prop(k, v) == [k |-> k, v |-> v]
\* an object written inline is an object of its own: no other value is it
JsObj(props) == [t |-> "object", props |-> props]
JsArr(elems) == [t |-> "array", elems |-> elems]
\* a reference to the object heap[id]: two Ref(id) are the same object
Ref(id) == [t |-> "ref", id |-> id]

\* JavaScript truthiness (what `!val` and `v && ...` test)
Truthy(v) ==
    CASE v.t = "undefined" -> FALSE
      [] v.t = "null" -> FALSE
      [] v.t = "boolean" -> v.b
      [] v.t = "number" -> "inf" \in DOMAIN v \/ v.d # <<>>
      [] v.t = "bigint" -> v.n # 0
      [] v.t = "string" -> v.s # <<>>
      [] OTHER -> TRUE

(***************************************************************************)
(* Text helpers: number and date formatting as JavaScript does it          *)
(***************************************************************************)
\* Number.prototype.toString / BigInt.prototype.toString for integers
NumToStr(n) == IF n < 0 THEN Txt("-") \o NatToStr(-n) ELSE NatToStr(n)

Zeros(n) == [i \in 1..n |-> 48]

\* Number::toString: the k digits of the number have the point after the
\* first n
NumberToString(v) ==
    IF "inf" \in DOMAIN v THEN (IF v.neg THEN Txt("-Infinity") ELSE Txt("Infinity"))
    ELSE IF v.d = <<>> THEN Txt("0")
    ELSE LET k == Len(v.d)
             n == k + v.e
             digits == [i \in 1..k |-> v.d[i] + 48]
         IN (IF v.neg THEN Txt("-") ELSE <<>>)
            \o (IF k <= n /\ n <= 21 THEN digits \o Zeros(n - k)
                ELSE IF 0 < n /\ n <= 21
                THEN SubSeq(digits, 1, n) \o Txt(".") \o SubSeq(digits, n + 1, k)
                ELSE IF -6 < n /\ n <= 0 THEN Txt("0.") \o Zeros(-n) \o digits
                ELSE SubSeq(digits, 1, 1)
                     \o (IF k > 1 THEN Txt(".") \o SubSeq(digits, 2, k) ELSE <<>>)
                     \o (IF n < 1 THEN Txt("e-") \o NatToStr(1 - n)
                         ELSE Txt("e+") \o NatToStr(n - 1)))

\* n in w digits at least, zeros in front
Pad(n, w) == Zeros(w - Len(NatToStr(n))) \o NatToStr(n)

\* the civil date of a day number (days after 1970-01-01), proleptic Gregorian
CivilFromDays(day) ==
    LET era == (day + 719468) \div 146097
        doe == (day + 719468) % 146097
        yoe == (doe - doe \div 1460 + doe \div 36524 - doe \div 146096) \div 365
        doy == doe - (365 * yoe + yoe \div 4 - yoe \div 100)
        mp == (5 * doy + 2) \div 153
    IN [y |-> yoe + era * 400 + (IF mp < 10 THEN 0 ELSE 1),
        m |-> IF mp < 10 THEN mp + 3 ELSE mp - 9,
        d |-> doy - (153 * mp + 2) \div 5 + 1]

\* the day number of a civil date
DaysFromCivil(y, m, d) ==
    LET yy == IF m <= 2 THEN y - 1 ELSE y
        era == yy \div 400
        yoe == yy % 400
        doy == (153 * (IF m > 2 THEN m - 3 ELSE m + 9) + 2) \div 5 + d - 1
    IN era * 146097 + yoe * 365 + yoe \div 4 - yoe \div 100 + doy - 719468

\* Date.prototype.toISOString of a Date with a valid time value; the year is
\* four digits, or a sign and six
toISOString(date) ==
    LET c == CivilFromDays(date.day)
        ms == date.ms
    IN (IF c.y >= 0 /\ c.y <= 9999 THEN Pad(c.y, 4)
        ELSE IF c.y < 0 THEN Txt("-") \o Pad(-c.y, 6)
        ELSE Txt("+") \o Pad(c.y, 6))
       \o Txt("-") \o Pad(c.m, 2) \o Txt("-") \o Pad(c.d, 2) \o Txt("T")
       \o Pad(ms \div 3600000, 2) \o Txt(":") \o Pad((ms \div 60000) % 60, 2) \o Txt(":")
       \o Pad((ms \div 1000) % 60, 2) \o Txt(".") \o Pad(ms % 1000, 3) \o Txt("Z")

\* s.charCodeAt(i - 1), -1 where it is NaN
Ch(s, i) == IF i >= 1 /\ i <= Len(s) THEN s[i] ELSE -1

\* a code unit of a string literal (any but one of a surrogate pair): a
\* control character is written as its short escape or as \u00xx, a surrogate
\* (0xD800 to 0xDFFF) on its own as \udxxx
EscapeChar(u) ==
    LET hex(d) == IF d < 10 THEN d + 48 ELSE d + 87
    IN CASE u = CodeTable["\""] -> Txt("\\\"")
         [] u = CodeTable["\\"] -> Txt("\\\\")
         [] u = 8 -> Txt("\\b")
         [] u = 9 -> Txt("\\t")
         [] u = 10 -> Txt("\\n")
         [] u = 12 -> Txt("\\f")
         [] u = 13 -> Txt("\\r")
         [] u < 32 \/ u \in 55296..57343 ->
              Txt("\\u") \o <<hex(u \div 4096), hex((u \div 256) % 16),
                            hex((u \div 16) % 16), hex(u % 16)>>
         [] OTHER -> <<u>>

\* the code units from position i: a leading surrogate (0xD800 to 0xDBFF) and
\* the trailing one (0xDC00 to 0xDFFF) after it are one code point, written as
\* it is
RECURSIVE EscapeFrom(_, _)
EscapeFrom(s, i) ==
    IF i > Len(s) THEN <<>>
    ELSE IF s[i] \in 55296..56319 /\ Ch(s, i + 1) \in 56320..57343
    THEN <<s[i], s[i + 1]>> \o EscapeFrom(s, i + 2)
    ELSE EscapeChar(s[i]) \o EscapeFrom(s, i + 1)

\* JSON's QuoteJSONString
Quote(s) == Txt("\"") \o EscapeFrom(s, 1) \o Txt("\"")

(***************************************************************************)
(* safeStringify: JSON.stringify(obj, replacer) with a WeakSet of seen     *)
(* objects.  JSON.stringify hands each property to SerializeJSONProperty,  *)
(* which calls the value's toJSON first (a Date has one), then the         *)
(* replacer, then serializes what the replacer returned.                   *)
(***************************************************************************)
\* Date.prototype.toJSON: the ISO string, or null for an invalid date
toJSON(v) ==
    IF v.t = "date" THEN JsStr(toISOString(v))
    ELSE IF v.t = "invaliddate" THEN JsNull
    ELSE IF v.t = "hostdate" THEN CHOOSE hostDefined \in {} : TRUE
    ELSE v

\* the replacer; seen is the WeakSet (the ids of the heap objects added). An
\* inline object is added too, and being no other value is never found again.
replacer(value, seen) ==
    IF value.t = "undefined" THEN [v |-> JsNull, seen |-> seen]
    ELSE IF value.t = "bigint" THEN [v |-> JsStr(NumToStr(value.n)), seen |-> seen]
    ELSE IF value.t = "date"
    THEN [v |-> JsObj(<<Prop(Txt("__date__"), JsStr(toISOString(value)))>>),
          seen |-> seen]
    ELSE IF value.t = "ref"
    THEN IF value.id \in seen
         THEN [v |-> JsStr(Txt("[Circular]")), seen |-> seen]
         ELSE [v |-> value, seen |-> seen \cup {value.id}]
    ELSE [v |-> value, seen |-> seen]

RECURSIVE SerializeProperty(_, _, _)
RECURSIVE SerializeMembers(_, _, _, _, _)
RECURSIVE SerializeElements(_, _, _, _, _)

\* the serialization of the value the replacer returned; the empty text stands
\* for undefined (the property is dropped). Infinity is written as null.
SerializeValue(v, heap, seen) ==
    LET Bracketed(open, m, close) ==
            [out |-> Txt(open) \o m.out \o Txt(close), seen |-> m.seen]
    IN
    CASE v.t = "null" -> [out |-> Txt("null"), seen |-> seen]
      [] v.t = "boolean" ->
           [out |-> IF v.b THEN Txt("true") ELSE Txt("false"), seen |-> seen]
      [] v.t = "number" ->
           [out |-> IF "inf" \in DOMAIN v THEN Txt("null") ELSE NumberToString(v),
            seen |-> seen]
      [] v.t = "string" -> [out |-> Quote(v.s), seen |-> seen]
      [] v.t = "object" ->
           Bracketed("{", SerializeMembers(v.props, 1, heap, seen, <<>>), "}")
      [] v.t = "array" ->
           Bracketed("[", SerializeElements(v.elems, 1, heap, seen, <<>>), "]")
      [] OTHER -> [out |-> <<>>, seen |-> seen]

\* r is what the replacer returned: a reference is the object it refers to
SerializeReplaced(r, heap) ==
    SerializeValue(IF r.v.t = "ref" THEN heap[r.v.id] ELSE r.v, heap, r.seen)

\* SerializeJSONProperty: toJSON, then the replacer, then the serialization
SerializeProperty(value, heap, seen) ==
    SerializeReplaced(replacer(toJSON(value), seen), heap)

\* member i serialized as p: dropped when undefined, else appended
AddMember(props, i, heap, p, acc) ==
    SerializeMembers(props, i + 1, heap, p.seen,
        IF p.out = <<>> THEN acc
        ELSE IF acc = <<>> THEN Quote(props[i].k) \o Txt(":") \o p.out
        ELSE acc \o Txt(",") \o Quote(props[i].k) \o Txt(":") \o p.out)

\* SerializeJSONObject: the members in property order
SerializeMembers(props, i, heap, seen, acc) ==
    IF i > Len(props) THEN [out |-> acc, seen |-> seen]
    ELSE AddMember(props, i, heap, SerializeProperty(props[i].v, heap, seen), acc)

\* element i serialized as p: an undefined element is written as null
AddElement(elems, i, heap, p, acc) ==
    SerializeElements(elems, i + 1, heap, p.seen,
        acc \o (IF i > 1 THEN Txt(",") ELSE <<>>)
            \o (IF p.out = <<>> THEN Txt("null") ELSE p.out))

\* SerializeJSONArray
SerializeElements(elems, i, heap, seen, acc) ==
    IF i > Len(elems) THEN [out |-> acc, seen |-> seen]
    ELSE AddElement(elems, i, heap, SerializeProperty(elems[i], heap, seen), acc)

\* safeStringify(obj): obj's objects by reference live in heap
safeStringify(obj, heap) == SerializeProperty(obj, heap, {}).out

\* the heap of a value that holds no reference
NoHeap == <<>>


(***************************************************************************)
(* Objects: property lookup and assignment                                 *)
(***************************************************************************)
HasProp(props, k) == \E i \in 1..Len(props) : props[i].k = k

\* the methods every plain object inherits from Object.prototype
ObjectPrototype ==
    {Txt("constructor"), Txt("__defineGetter__"), Txt("__defineSetter__"),
     Txt("hasOwnProperty"), Txt("__lookupGetter__"), Txt("__lookupSetter__"),
     Txt("isPrototypeOf"), Txt("propertyIsEnumerable"), Txt("toString"), Txt("valueOf"),
     Txt("toLocaleString")}
\* a function value
JsFunc(name) == [t |-> "function", name |-> name]

\* k in obj: an own property, or an inherited one
In(props, k) == HasProp(props, k) \/ k \in ObjectPrototype \/ k = Txt("__proto__")

\* obj[k]: the own property, else the inherited member, else undefined
GetProp(props, k) ==
    IF HasProp(props, k)
    THEN props[CHOOSE i \in 1..Len(props) : props[i].k = k].v
    ELSE IF k \in ObjectPrototype THEN JsFunc(k)
    ELSE IF k = Txt("__proto__") THEN [t |-> "prototype"]
    ELSE Undefined

\* the code units of the decimal digits
Digits == 48..57

\* a before b, for two strings of digits of one length
DigitsLess(a, b) ==
    \E i \in 1..Len(a) :
        /\ SubSeq(a, 1, i - 1) = SubSeq(b, 1, i - 1)
        /\ a[i] < b[i]

\* an array index: the canonical numeric string of an integer below 2^32 - 1
IsArrayIndex(k) ==
    /\ k # <<>>
    /\ \A i \in 1..Len(k) : k[i] \in Digits
    /\ Len(k) = 1 \/ k[1] # CodeTable["0"]
    /\ Len(k) < 10 \/ (Len(k) = 10 /\ ~DigitsLess(Txt("4294967294"), k))

\* CreateDataProperty(obj, k, v): an existing property keeps its place, a new
\* one goes after the p properties before it in the order of the own keys:
\* array indices ascending, then strings as they were created
DefineProp(props, k, v) ==
    IF HasProp(props, k)
    THEN [i \in 1..Len(props) |->
             IF props[i].k = k THEN Prop(k, v) ELSE props[i]]
    ELSE LET p == IF IsArrayIndex(k)
                  THEN Cardinality({i \in 1..Len(props) :
                           /\ IsArrayIndex(props[i].k)
                           /\ \/ Len(props[i].k) < Len(k)
                              \/ /\ Len(props[i].k) = Len(k)
                                 /\ DigitsLess(props[i].k, k)})
                  ELSE Len(props)
         IN SubSeq(props, 1, p) \o <<Prop(k, v)>> \o SubSeq(props, p + 1, Len(props))

\* obj[k] = v: as CreateDataProperty, but the inherited setter __proto__
\* takes the value and makes no own property
SetProp(props, k, v) ==
    IF k = Txt("__proto__") /\ ~HasProp(props, k) THEN props
    ELSE DefineProp(props, k, v)

(***************************************************************************)
(* JSON.parse, by recursive descent over the text: objects, arrays,        *)
(* strings with their escapes, numbers with fraction and exponent, true,   *)
(* false, null and white space.  Anything else is a SyntaxError.           *)
(***************************************************************************)
RECURSIVE SkipWs(_, _)
SkipWs(s, i) == IF Ch(s, i) \in {32, 9, 10, 13} THEN SkipWs(s, i + 1) ELSE i

\* a SyntaxError
ParseFail == [ok |-> FALSE]
Parsed(v, i) == [ok |-> TRUE, v |-> v, i |-> i]

\* the value of a hex digit, -1 for any other code unit
HexVal(u) ==
    IF u \in Digits THEN u - 48
    ELSE IF u \in 97..102 THEN u - 87
    ELSE IF u \in 65..70 THEN u - 55
    ELSE -1

\* the string literal from position i (after the opening quote), as a string
\* value; \uXXXX is the code unit of its four hex digits, and unescaped is the
\* code unit a short escape stands for (-1 when there is no such escape)
RECURSIVE ParseStringBody(_, _, _)
ParseStringBody(s, i, acc) ==
    LET c == Ch(s, i)
        e == Ch(s, i + 1)
        unescaped ==
            CASE e \in {CodeTable["\""], CodeTable["\\"], CodeTable["/"]} -> e
              [] e = CodeTable["b"] -> 8
              [] e = CodeTable["f"] -> 12
              [] e = CodeTable["n"] -> 10
              [] e = CodeTable["r"] -> 13
              [] e = CodeTable["t"] -> 9
              [] OTHER -> -1
    IN IF c < 32 THEN ParseFail
       ELSE IF c = CodeTable["\""] THEN Parsed(JsStr(acc), i + 1)
       ELSE IF c = CodeTable["\\"]
       THEN IF e = CodeTable["u"]
            THEN IF \A j \in i + 2..i + 5 : HexVal(Ch(s, j)) >= 0
                 THEN ParseStringBody(s, i + 6,
                          Append(acc, HexVal(Ch(s, i + 2)) * 4096
                                      + HexVal(Ch(s, i + 3)) * 256
                                      + HexVal(Ch(s, i + 4)) * 16
                                      + HexVal(Ch(s, i + 5))))
                 ELSE ParseFail
            ELSE IF unescaped >= 0
            THEN ParseStringBody(s, i + 2, Append(acc, unescaped))
            ELSE ParseFail
       ELSE ParseStringBody(s, i + 1, Append(acc, c))

\* A positive decimal is the sequence d of its digits, the first not zero, and
\* the exponent x of the first: d1.d2d3... * 10^x.  The arithmetic below is
\* exact.

\* v * 2^p, by halves of p.  Twice a decimal, digit by digit: the carry into a
\* digit is 1 when the digit after it is 5 or more.  Half a decimal, digit by
\* digit: an odd digit leaves 5 to the digit after it.
RECURSIVE Scale(_, _)
Scale(v, p) ==
    LET Carry(i) == IF i < Len(v.d) /\ v.d[i + 1] >= 5 THEN 1 ELSE 0
        twice == [i \in 1..Len(v.d) |-> (2 * v.d[i] + Carry(i)) % 10]
        halves == [i \in 1..Len(v.d) + 1 |->
                      (IF i <= Len(v.d) THEN v.d[i] \div 2 ELSE 0)
                      + (IF i > 1 /\ v.d[i - 1] % 2 = 1 THEN 5 ELSE 0)]
    IN IF v.d = <<>> \/ p = 0 THEN v
       ELSE IF p = 1
       THEN IF v.d[1] >= 5 THEN [d |-> <<1>> \o twice, x |-> v.x + 1]
            ELSE [d |-> <<>> \o twice, x |-> v.x]
       ELSE IF p = -1
       THEN [d |-> SubSeq(halves, IF v.d[1] = 1 THEN 2 ELSE 1,
                          IF v.d[Len(v.d)] % 2 = 1 THEN Len(v.d) + 1 ELSE Len(v.d)),
             x |-> IF v.d[1] = 1 THEN v.x - 1 ELSE v.x]
       ELSE Scale(Scale(v, p \div 2), p - p \div 2)

\* a < b, for two positive decimals
DecLess(a, b) ==
    LET At(s, j) == IF j <= Len(s) THEN s[j] ELSE 0
    IN \/ a.x < b.x
       \/ /\ a.x = b.x
          /\ \E i \in 1..Len(a.d) + Len(b.d) :
                /\ \A j \in 1..i - 1 : At(a.d, j) = At(b.d, j)
                /\ At(a.d, i) < At(b.d, i)

\* the digits of the integer after the one with the digits d
Successor(d) ==
    IF \A i \in 1..Len(d) : d[i] = 9 THEN <<1>> \o [i \in 1..Len(d) |-> 0]
    ELSE LET k == CHOOSE i \in 1..Len(d) :
                      d[i] # 9 /\ \A j \in i + 1..Len(d) : d[j] = 9
         IN [i \in 1..Len(d) |-> IF i < k THEN d[i] ELSE IF i = k THEN d[i] + 1 ELSE 0]

\* the double nearest to v, as a significand m and a binary exponent p: q is
\* v / 2^p.  The exponent is moved until q is in [2^52, 2^53), or below it
\* with the exponent of the subnormal doubles; then q is rounded to an
\* integer, ties to even (and 2^53 is 2^52 with the next exponent).
RECURSIVE Binade(_, _)
Binade(q, p) ==
    LET At(j) == IF j >= 1 /\ j <= Len(q.d) THEN q.d[j] ELSE 0
        n == q.x + 1
        int == IF n <= 0 THEN <<>> ELSE [i \in 1..n |-> At(i)]
        up == /\ n >= 0
              /\ \/ At(n + 1) > 5
                 \/ /\ At(n + 1) = 5
                    /\ \/ \E j \in n + 2..Len(q.d) : q.d[j] # 0
                       \/ At(n) % 2 = 1
    IN IF ~DecLess(q, [d |-> <<9, 0, 0, 7, 1, 9, 9, 2, 5, 4, 7, 4, 0, 9, 9, 2>>, x |-> 15])
       THEN Binade(Scale(q, -1), p + 1)
       ELSE IF p > -1074
               /\ DecLess(q, [d |-> <<4, 5, 0, 3, 5, 9, 9, 6, 2, 7, 3, 7, 0, 4, 9, 6>>,
                              x |-> 15])
       THEN Binade(Scale(q, 1), p - 1)
       ELSE IF ~up THEN [m |-> int, p |-> p]
       ELSE IF Successor(int) = <<9, 0, 0, 7, 1, 9, 9, 2, 5, 4, 7, 4, 0, 9, 9, 2>>
       THEN [m |-> <<4, 5, 0, 3, 5, 9, 9, 6, 2, 7, 3, 7, 0, 4, 9, 6>>, p |-> p + 1]
       ELSE [m |-> Successor(int), p |-> p]

\* the shortest decimal between low and high (themselves included when
\* closed), and of those of its length the one nearest to v: v cut after k
\* digits, or the decimal after that
RECURSIVE Shortest(_, _, _, _, _)
Shortest(v, low, high, closed, k) ==
    LET floor == [d |-> SubSeq(v.d, 1, k), x |-> v.x]
        ceil == IF Len(Successor(floor.d)) > k THEN [d |-> <<1>>, x |-> v.x + 1]
                ELSE [d |-> Successor(floor.d), x |-> v.x]
        inLow == IF closed THEN ~DecLess(floor, low) ELSE DecLess(low, floor)
        inHigh == IF closed THEN ~DecLess(high, ceil) ELSE DecLess(ceil, high)
    IN IF k >= Len(v.d) THEN v
       ELSE IF inLow /\ ~(inHigh /\ v.d[k + 1] >= 5) THEN floor
       ELSE IF inHigh THEN ceil
       ELSE Shortest(v, low, high, closed, k + 1)

\* the double b.m * 2^b.p as the decimal Number::toString prints for it: the
\* shortest one in the interval of the decimals that round to this double.
\* The interval ends half way to the doubles next to it, (2m - 1) * 2^(p-1)
\* and (2m + 1) * 2^(p-1); the double below a power of two is nearer,
\* (4m - 1) * 2^(p-2) with m = 2^52; the ends are in it when m is even.
DoubleValue(neg, b) ==
    LET Whole(d) == [d |-> d, x |-> Len(d) - 1]
        twice == Scale(Whole(b.m), 1).d
        k == CHOOSE i \in 1..Len(twice) :
                 twice[i] # 0 /\ \A j \in i + 1..Len(twice) : twice[j] = 0
        before == [i \in 1..Len(twice) |->
                      IF i < k THEN twice[i] ELSE IF i = k THEN twice[i] - 1 ELSE 9]
        after == [twice EXCEPT ![Len(twice)] = @ + 1]
        Number(s) == JsNumber(neg, s.d, s.x - (Len(s.d) - 1))
    IN IF b.m = <<>> THEN JsNumber(FALSE, <<>>, 0)
       ELSE IF b.p > 971 THEN JsInfinity(neg)
       ELSE Number(Shortest(
                Scale(Whole(b.m), b.p),
                IF b.p > -1074
                   /\ b.m = <<4, 5, 0, 3, 5, 9, 9, 6, 2, 7, 3, 7, 0, 4, 9, 6>>
                THEN Scale(Whole(<<1, 8, 0, 1, 4, 3, 9, 8, 5, 0, 9, 4, 8, 1, 9, 8, 3>>),
                           b.p - 2)
                ELSE Scale(Whole(IF before[1] = 0 THEN Tail(before) ELSE before),
                           b.p - 1),
                Scale(Whole(after), b.p - 1),
                b.m[Len(b.m)] % 2 = 0, 1))

\* the Number value of the decimal v a literal writes: the double nearest to
\* it, as the decimal Number::toString prints for that double.  x is the
\* exponent of v's first digit.  From 1e309 on the value is Infinity and below
\* 1e-324 it is zero; a decimal of 15 digits at most well within the normal
\* doubles is printed as it was written; for any other the nearest double is
\* computed.
Decimal(v) ==
    LET x == Len(v.d) + v.e - 1
    IN IF v.d = <<>> THEN v
       ELSE IF x > 308 THEN JsInfinity(v.neg)
       ELSE IF x < -324 THEN JsNumber(FALSE, <<>>, 0)
       ELSE IF Len(v.d) <= 15 /\ x < 308 /\ x > -308 THEN v
       ELSE DoubleValue(v.neg,
                Binade(Scale([d |-> v.d, x |-> x],
                             IF (x * 3322) \div 1000 - 53 < -1074 THEN 1074
                             ELSE 53 - (x * 3322) \div 1000),
                       IF (x * 3322) \div 1000 - 53 < -1074 THEN -1074
                       ELSE (x * 3322) \div 1000 - 53))

\* the digits from position i: the position after them, and their value as an
\* integer.  Beyond the length of the text and the exponents of the doubles
\* together, where the exponent alone makes the number Infinity or zero
\* whatever the digits before it, the value grows no more.
RECURSIVE ParseDigits(_, _, _)
ParseDigits(s, i, acc) ==
    IF Ch(s, i) \in Digits
    THEN ParseDigits(s, i + 1,
             IF acc > Len(s) + 1000 THEN acc ELSE acc * 10 + (s[i] - 48))
    ELSE Parsed(acc, i)

\* the exponent's digits from position j, after e or E and a sign: the number
\* is m * 10^(x - fl)
ExponentDigits(s, neg, m, fl, minus, j) ==
    IF Ch(s, j) \notin Digits THEN ParseFail
    ELSE LET x == ParseDigits(s, j, 0)
         IN Parsed(Decimal(JsNumber(neg, m, (IF minus THEN 0 - x.v ELSE x.v) - fl)),
                   x.i)

\* after the fraction, at position i: an exponent, or the end of the number;
\* m is the digits read so far and fl the number of them after the point
ExponentAt(s, neg, m, fl, i) ==
    IF Ch(s, i) \in {CodeTable["e"], CodeTable["E"]}
    THEN ExponentDigits(s, neg, m, fl, Ch(s, i + 1) = CodeTable["-"],
             IF Ch(s, i + 1) \in {CodeTable["+"], CodeTable["-"]} THEN i + 2 ELSE i + 1)
    ELSE Parsed(Decimal(JsNumber(neg, m, 0 - fl)), i)

\* the integer digits s[j..k-1] of a number read: a fraction (a point and a
\* digit at least) and an exponent may follow
NumberRead(s, neg, j, k) ==
    LET DigitsOf(a, b) == [n \in 1..b - a |-> (s[a + n - 1] - 48)]
        f == ParseDigits(s, k + 1, 0).i
    IN IF Ch(s, k) # CodeTable["."] THEN ExponentAt(s, neg, DigitsOf(j, k), 0, k)
       ELSE IF Ch(s, k + 1) \notin Digits THEN ParseFail
       ELSE ExponentAt(s, neg, DigitsOf(j, k) \o DigitsOf(k + 1, f), f - k - 1, f)

\* a number literal: its sign, then 0 | [1-9][0-9]*, then the rest
ParseNumber(s, i) ==
    LET neg == Ch(s, i) = CodeTable["-"]
        j == IF neg THEN i + 1 ELSE i
    IN IF Ch(s, j) \notin Digits THEN ParseFail
       ELSE NumberRead(s, neg, j,
                IF Ch(s, j) = CodeTable["0"] THEN j + 1 ELSE ParseDigits(s, j, 0).i)

StartsAt(s, i, word) ==
    /\ i + Len(word) - 1 <= Len(s)
    /\ SubSeq(s, i, i + Len(word) - 1) = Txt(word)

RECURSIVE ParseValue(_, _)
RECURSIVE ParseMembers(_, _, _, _)
RECURSIVE ParseElements(_, _, _, _)

\* the value that starts after the white space at position i
ParseValue(s, i) ==
    LET j == SkipWs(s, i)
    IN IF Ch(s, j) = CodeTable["{"] THEN ParseMembers(s, j + 1, <<>>, TRUE)
       ELSE IF Ch(s, j) = CodeTable["["] THEN ParseElements(s, j + 1, <<>>, TRUE)
       ELSE IF Ch(s, j) = CodeTable["\""] THEN ParseStringBody(s, j + 1, <<>>)
       ELSE IF Ch(s, j) = CodeTable["-"] \/ Ch(s, j) \in Digits THEN ParseNumber(s, j)
       ELSE IF StartsAt(s, j, "true") THEN Parsed(JsBool(TRUE), j + 4)
       ELSE IF StartsAt(s, j, "false") THEN Parsed(JsBool(FALSE), j + 5)
       ELSE IF StartsAt(s, j, "null") THEN Parsed(JsNull, j + 4)
       ELSE ParseFail

\* after a member: a comma and more members, or the closing brace
AfterMember(s, m, props) ==
    IF Ch(s, m) = CodeTable[","] THEN ParseMembers(s, m + 1, props, FALSE)
    ELSE IF Ch(s, m) = CodeTable["}"] THEN Parsed(JsObj(props), m + 1)
    ELSE ParseFail

\* the member's value read as val: a duplicate name keeps the last value
MemberValueRead(s, name, val, props) ==
    IF ~val.ok THEN ParseFail
    ELSE AfterMember(s, SkipWs(s, val.i), DefineProp(props, name, val.v))

\* the member's name read as key: a colon and the value follow
MemberNameRead(s, key, props) ==
    IF ~key.ok THEN ParseFail
    ELSE IF Ch(s, SkipWs(s, key.i)) # CodeTable[":"] THEN ParseFail
    ELSE MemberValueRead(s, key.v.s, ParseValue(s, SkipWs(s, key.i) + 1), props)

\* the members of an object from position i (after "{" or after a comma): a
\* member, or the closing brace of an empty object
ParseMembers(s, i, props, first) ==
    LET j == SkipWs(s, i)
    IN IF first /\ Ch(s, j) = CodeTable["}"] THEN Parsed(JsObj(props), j + 1)
       ELSE IF Ch(s, j) # CodeTable["\""] THEN ParseFail
       ELSE MemberNameRead(s, ParseStringBody(s, j + 1, <<>>), props)

\* after an element: a comma and more elements, or the closing bracket
AfterElement(s, m, elems) ==
    IF Ch(s, m) = CodeTable[","] THEN ParseElements(s, m + 1, elems, FALSE)
    ELSE IF Ch(s, m) = CodeTable["]"] THEN Parsed(JsArr(elems), m + 1)
    ELSE ParseFail

\* the element read as val
ElementRead(s, val, elems) ==
    IF ~val.ok THEN ParseFail
    ELSE AfterElement(s, SkipWs(s, val.i), Append(elems, val.v))

\* the elements of an array from position i (after "[" or after a comma): an
\* element, or the closing bracket of an empty array
ParseElements(s, i, elems, first) ==
    IF first /\ Ch(s, SkipWs(s, i)) = CodeTable["]"]
    THEN Parsed(JsArr(elems), SkipWs(s, i) + 1)
    ELSE ElementRead(s, ParseValue(s, i), elems)

\* the whole text must be one value
WholeText(text, r) ==
    IF r.ok /\ SkipWs(text, r.i) = Len(text) + 1 THEN r ELSE ParseFail

\* JSON.parse(text): ok = FALSE when it throws
JSONparse(text) == WholeText(text, ParseValue(text, 1))

(***************************************************************************)
(* safeParse                                                               *)
(***************************************************************************)
\* The date-time format of the language: YYYY or +YYYYYY or -YYYYYY, then
\* -MM, then -DD, then THH:mm, then :ss, then .sss, then Z or +HH:mm or -HH:mm.
AllDigits(s, i, n) ==
    /\ i + n - 1 <= Len(s)
    /\ \A j \in i..i + n - 1 : s[j] \in Digits

RECURSIVE DigitsValue(_, _, _)
DigitsValue(s, i, n) ==
    IF n = 0 THEN 0
    ELSE DigitsValue(s, i, n - 1) * 10 + (s[i + n - 1] - 48)

\* the fields of a string in the format, before any is read
Fields ==
    [ok |-> TRUE, y |-> 0, minusZero |-> FALSE, mo |-> 1, d |-> 1,
     h |-> 0, mi |-> 0, s |-> 0, ms |-> 0,
     zone |-> "utc", west |-> FALSE, oh |-> 0, om |-> 0]

\* the time zone at position i: none (local time), Z, or an offset
ZoneAt(s, f, i) ==
    IF i > Len(s) THEN [f EXCEPT !.zone = "local"]
    ELSE IF Ch(s, i) = CodeTable["Z"] /\ i = Len(s) THEN f
    ELSE IF /\ Ch(s, i) \in {CodeTable["+"], CodeTable["-"]}
            /\ AllDigits(s, i + 1, 2)
            /\ Ch(s, i + 3) = CodeTable[":"]
            /\ AllDigits(s, i + 4, 2)
            /\ i + 5 = Len(s)
    THEN [f EXCEPT !.zone = "offset", !.west = (Ch(s, i) = CodeTable["-"]),
                   !.oh = DigitsValue(s, i + 1, 2), !.om = DigitsValue(s, i + 4, 2)]
    ELSE ParseFail

MillisAt(s, f, i) ==
    IF Ch(s, i) # CodeTable["."] THEN ZoneAt(s, f, i)
    ELSE IF AllDigits(s, i + 1, 3)
    THEN ZoneAt(s, [f EXCEPT !.ms = DigitsValue(s, i + 1, 3)], i + 4)
    ELSE ParseFail

SecondsAt(s, f, i) ==
    IF Ch(s, i) # CodeTable[":"] THEN ZoneAt(s, f, i)
    ELSE IF AllDigits(s, i + 1, 2)
    THEN MillisAt(s, [f EXCEPT !.s = DigitsValue(s, i + 1, 2)], i + 3)
    ELSE ParseFail

\* after the date: the end (a date alone is in UTC), or T and a time
TimeAt(s, f, i) ==
    IF i > Len(s) THEN f
    ELSE IF /\ Ch(s, i) = CodeTable["T"]
            /\ AllDigits(s, i + 1, 2)
            /\ Ch(s, i + 3) = CodeTable[":"]
            /\ AllDigits(s, i + 4, 2)
    THEN SecondsAt(s, [f EXCEPT !.h = DigitsValue(s, i + 1, 2),
                                !.mi = DigitsValue(s, i + 4, 2)], i + 6)
    ELSE ParseFail

DayAt(s, f, i) ==
    IF Ch(s, i) # CodeTable["-"] THEN TimeAt(s, f, i)
    ELSE IF AllDigits(s, i + 1, 2)
    THEN TimeAt(s, [f EXCEPT !.d = DigitsValue(s, i + 1, 2)], i + 3)
    ELSE ParseFail

MonthAt(s, f, i) ==
    IF Ch(s, i) # CodeTable["-"] THEN TimeAt(s, f, i)
    ELSE IF AllDigits(s, i + 1, 2)
    THEN DayAt(s, [f EXCEPT !.mo = DigitsValue(s, i + 1, 2)], i + 3)
    ELSE ParseFail

DateTimeFields(s) ==
    IF Ch(s, 1) \in {CodeTable["+"], CodeTable["-"]}
    THEN IF AllDigits(s, 2, 6)
         THEN MonthAt(s, [Fields EXCEPT
                             !.y = IF Ch(s, 1) = CodeTable["-"] THEN 0 - DigitsValue(s, 2, 6)
                                   ELSE DigitsValue(s, 2, 6),
                             !.minusZero = (SubSeq(s, 1, 7) = Txt("-000000"))], 8)
         ELSE ParseFail
    ELSE IF AllDigits(s, 1, 4)
    THEN MonthAt(s, [Fields EXCEPT !.y = DigitsValue(s, 1, 4)], 5)
    ELSE ParseFail

\* every field within its bounds (the day up to 31, whatever the month)
InRange(f) ==
    /\ ~f.minusZero
    /\ f.mo \in 1..12
    /\ f.d \in 1..31
    /\ f.h <= 23 \/ (f.h = 24 /\ f.mi = 0 /\ f.s = 0 /\ f.ms = 0)
    /\ f.mi <= 59
    /\ f.s <= 59
    /\ f.oh <= 23
    /\ f.om <= 59

DaysInMonth(y, m) ==
    IF m = 2 THEN (IF y % 4 = 0 /\ (y % 100 # 0 \/ y % 400 = 0) THEN 29 ELSE 28)
    ELSE IF m \in {4, 6, 9, 11} THEN 30
    ELSE 31

\* a string in the format that names a moment whatever the host: its day
\* exists and its time zone is given
IsIsoString(str) ==
    /\ DateTimeFields(str).ok
    /\ InRange(DateTimeFields(str))
    /\ DateTimeFields(str).d
           <= DaysInMonth(DateTimeFields(str).y, DateTimeFields(str).mo)
    /\ DateTimeFields(str).zone # "local"

\* the moment the fields name: the zone's minutes ahead of UTC are taken off,
\* the day may change, and TimeClip makes the date invalid beyond the range
\* of time values (100000000 days either side of the epoch)
DateOfFields(f) ==
    LET offset == IF f.zone # "offset" THEN 0
                  ELSE IF f.west THEN 0 - (f.oh * 60 + f.om)
                  ELSE f.oh * 60 + f.om
        t == ((f.h * 60 + f.mi - offset) * 60 + f.s) * 1000 + f.ms
        day == DaysFromCivil(f.y, f.mo, f.d) + t \div MsPerDay
        ms == t % MsPerDay
    IN IF day < -100000000 \/ day > 100000000 \/ (day = 100000000 /\ ms > 0)
       THEN InvalidDate
       ELSE JsDateAt(day, ms)

\* new Date(str).  A string in the format with a field out of its bounds, or
\* with no digit at all, is no date.  Any other string that is not
\* IsIsoString is left to the host.
newDate(str) ==
    IF IsIsoString(str) THEN DateOfFields(DateTimeFields(str))
    ELSE IF \A i \in 1..Len(str) : str[i] \notin Digits THEN InvalidDate
    ELSE IF DateTimeFields(str).ok /\ ~InRange(DateTimeFields(str)) THEN InvalidDate
    ELSE HostDate(str)

\* v && v.__date__ && typeof v.__date__ === 'string' ? new Date(v.__date__) : v
ReviveDate(v) ==
    IF /\ v.t = "object"
       /\ GetProp(v.props, Txt("__date__")).t = "string"
       /\ Truthy(GetProp(v.props, Txt("__date__")))
    THEN newDate(GetProp(v.props, Txt("__date__")).s)
    ELSE v

\* the "simple Date restore" over Object.keys(parsed); r is the outcome of
\* the parse, and a SyntaxError is caught and gives null
reviveDates(r) ==
    IF ~r.ok THEN JsNull
    ELSE IF r.v.t = "object"
    THEN JsObj([i \in 1..Len(r.v.props) |->
                   Prop(r.v.props[i].k, ReviveDate(r.v.props[i].v))])
    ELSE IF r.v.t = "array"
    THEN JsArr([i \in 1..Len(r.v.elems) |-> ReviveDate(r.v.elems[i])])
    ELSE r.v

\* safeParse(val): a falsy value is null, a string is parsed, and any other
\* value (one the backend held as it was stored) is taken as it is
safeParse(val) ==
    IF ~Truthy(val) THEN JsNull
    ELSE IF val.t = "string" THEN reviveDates(JSONparse(val.s))
    ELSE reviveDates(Parsed(val, 0))

(***************************************************************************)
(* pick                                                                    *)
(***************************************************************************)
RECURSIVE PickPaths(_, _, _, _)
PickPaths(props, paths, i, result) ==
    IF i > Len(paths) THEN result
    ELSE PickPaths(props, paths, i + 1,
             IF In(props, paths[i])
             THEN SetProp(result, paths[i], GetProp(props, paths[i]))
             ELSE result)

\* pick as it would be if it ignored paths
pickWholeState(props, paths) == JsObj(props)

\* pick(state, paths); paths = <<>> is "absent or empty". The result is a new
\* object holding state's own values.
pick(props, paths) ==
    IF Len(paths) = 0 THEN JsObj(props)
    ELSE JsObj(PickPaths(props, paths, 1, <<>>))


(***************************************************************************)
(* The storage backend (uni storage) and the store framework (pinia)       *)
(***************************************************************************)
\* uni.getStorageSync(key): the value as it was stored, '' when the key is absent
getStorageSync(store, key) == IF key \in DOMAIN store THEN store[key] ELSE JsStr(<<>>)

\* uni.setStorageSync(key, data) / a completed uni.setStorage
setStorageSync(store, key, data) ==
    [k \in DOMAIN store \cup {key} |-> IF k = key THEN JsStr(data) ELSE store[k]]

\* the removal as it would be if it cleared the whole backend
removeStorageSyncAll(store, key) == <<>>

\* uni.removeStorageSync(key)
removeStorageSync(store, key) == [k \in DOMAIN store \ {key} |-> store[k]]

\* the own enumerable entries `for (key in patch)` visits
OwnEntries(v) ==
    CASE v.t = "object" -> v.props
      [] v.t = "array" -> [i \in 1..Len(v.elems) |-> Prop(NumToStr(i - 1), v.elems[i])]
      [] v.t = "string" -> [i \in 1..Len(v.s) |-> Prop(NumToStr(i - 1), JsStr(<<v.s[i]>>))]
      [] OTHER -> <<>>

\* pinia's mergeReactiveObjects: plain objects merge, anything else replaces
RECURSIVE MergeEntries(_, _, _)
MergeEntries(target, entries, i) ==
    IF i > Len(entries) THEN target
    ELSE LET k == entries[i].k
             sub == entries[i].v
             tv == GetProp(target, k)
         IN MergeEntries(
                SetProp(target, k,
                    IF tv.t = "object" /\ sub.t = "object" /\ HasProp(target, k)
                    THEN JsObj(MergeEntries(tv.props, sub.props, 1))
                    ELSE sub),
                entries, i + 1)

\* $patch as it would be if it replaced the state by the saved record
patchReplace(props, saved) == OwnEntries(saved)

\* store.$patch(saved) on the state's properties
patch(props, saved) == MergeEntries(props, OwnEntries(saved), 1)

\* Object.assign(target, source)
RECURSIVE AssignEntries(_, _, _)
AssignEntries(target, entries, i) ==
    IF i > Len(entries) THEN target
    ELSE AssignEntries(SetProp(target, entries[i].k, entries[i].v), entries, i + 1)

\* the store's own $reset: $patch($state => Object.assign($state, state()))
originalReset(props, defaults) == AssignEntries(props, defaults, 1)

(***************************************************************************)
(* createUniPersistPlugin: what it reads from its options and the store    *)
(***************************************************************************)
\* pluginOptions?.keyPrefix || ''
keyPrefix(c) ==
    IF "keyPrefix" \in DOMAIN c /\ c.keyPrefix # <<>> THEN c.keyPrefix ELSE <<>>

\* the gate as it would be if it tested the persist option alone
persistDeclared(c) == "persist" \in DOMAIN c

\* persist?.enabled is truthy
persistEnabled(c) ==
    /\ "persist" \in DOMAIN c
    /\ "enabled" \in DOMAIN c.persist
    /\ c.persist.enabled

\* persist.strategies?.length ? persist.strategies : [{ key: store.$id }]
strategies(c) ==
    IF "strategies" \in DOMAIN c.persist /\ Len(c.persist.strategies) > 0
    THEN c.persist.strategies
    ELSE <<[key |-> c.storeId]>>

\* persist.async ?? true
globalAsync(c) == IF "async" \in DOMAIN c.persist THEN c.persist.async ELSE TRUE

\* the strategy's key as it would be with ?? in place of ||
strategyKeyNullish(strategy, storeId) ==
    IF "key" \in DOMAIN strategy THEN strategy.key ELSE storeId

\* strategy.key || store.$id
strategyKey(strategy, storeId) ==
    IF "key" \in DOMAIN strategy /\ strategy.key # <<>> THEN strategy.key
    ELSE storeId

\* getFullKey(strategy.key || store.$id)
getFullKey(c, strategy) == keyPrefix(c) \o strategyKey(strategy, c.storeId)

\* strategy.paths, <<>> when absent
strategyPaths(strategy) ==
    IF "paths" \in DOMAIN strategy THEN strategy.paths ELSE <<>>

\* the write mode as it would be if only the store-level setting counted
shouldUseAsyncGlobalOnly(c, strategy) == globalAsync(c)

\* (globalAsync && strategy.async !== false) || strategy.async === true
shouldUseAsync(c, strategy) ==
    \/ globalAsync(c) /\ ~("async" \in DOMAIN strategy /\ strategy.async = FALSE)
    \/ "async" \in DOMAIN strategy /\ strategy.async = TRUE

\* getByteLength(str).  With TextEncoder it is the length of the string in
\* UTF-8, utf8[1]: a leading surrogate and the trailing one after it are one
\* code point of four bytes, and a surrogate on its own is written as U+FFFD.
\* Without, the fallback loop counts each code unit on its own; len[i] is its
\* len after i rounds (code <= 0x7f ? 1 : code <= 0x7ff ? 2 : code <= 0xffff
\* ? 3 : 4).
getByteLength(c, str) ==
    LET utf8[i \in 1..Len(str) + 2] ==
            IF i > Len(str) THEN 0
            ELSE IF str[i] \in 55296..56319 /\ Ch(str, i + 1) \in 56320..57343
            THEN 4 + utf8[i + 2]
            ELSE (IF str[i] <= 127 THEN 1 ELSE IF str[i] <= 2047 THEN 2 ELSE 3)
                 + utf8[i + 1]
        len[i \in 0..Len(str)] ==
            IF i = 0 THEN 0
            ELSE len[i - 1] + (IF str[i] <= 127 THEN 1 ELSE IF str[i] <= 2047 THEN 2
                               ELSE IF str[i] <= 65535 THEN 3 ELSE 4)
    IN IF c.textEncoder THEN utf8[1] ELSE len[Len(str)]

\* 3.5 * 1024 * 1024
SizeLimit == 3670016


(***************************************************************************)
(* The handlers.  A handler works on a context x: the store's state, the   *)
(* backend, the asynchronous writes in flight, the handler's log, and      *)
(* whether an exception left the handler.                                  *)
(***************************************************************************)
\* a log entry: a hook call, a $patch, or a backend call (ok = it did not throw)
Ev(op, key, data, ok) == [op |-> op, key |-> key, data |-> data, ok |-> ok]

Ctx(st, sto, inf) ==
    [state |-> st, storage |-> sto, inflight |-> inf, log |-> <<>>, threw |-> FALSE,
     resetThrew |-> FALSE]

\* persist.beforeRestore?.(ctx) / persist.afterRestore?.(ctx)
callHook(c, name, x) ==
    IF name \in DOMAIN c.persist /\ c.persist[name]
    THEN [x EXCEPT !.log = Append(@, Ev(name, <<>>, <<>>, TRUE))]
    ELSE x

\* the catch block of the restore step: console.error, then
\* uni.removeStorageSync(key), which nothing guards
restoreCatch(x, key, removeThrows) ==
    IF removeThrows
    THEN [x EXCEPT !.log = Append(@, Ev("removeStorageSync", key, <<>>, FALSE)),
                   !.threw = TRUE]
    ELSE [x EXCEPT !.log = Append(@, Ev("removeStorageSync", key, <<>>, TRUE)),
                   !.storage = removeStorageSync(@, key)]

\* the restore of a record as it would be if the subscription were already
\* installed: the patch is written back
restoreSavedWriteBack(x, key, saved, merged, removeThrows) ==
    IF saved = JsNull
    THEN [x EXCEPT !.log = Append(@, Ev("getStorageSync", key, <<>>, TRUE))]
    ELSE IF merged < 0
    THEN [x EXCEPT !.log = @ \o <<Ev("getStorageSync", key, <<>>, TRUE),
                                   Ev("$patch", key, <<>>, TRUE),
                                   Ev("setStorage", key, <<>>, TRUE)>>,
                   !.state = patch(@, saved),
                   !.inflight = @ (+) SetToBag({[key |-> key, data |-> <<>>]})]
    ELSE LET entries == OwnEntries(saved)
             n == IF merged < Len(entries) THEN merged ELSE Len(entries)
         IN restoreCatch(
                [x EXCEPT !.log = @ \o <<Ev("getStorageSync", key, <<>>, TRUE),
                                         Ev("$patch", key, <<>>, FALSE)>>,
                          !.state = MergeEntries(@, SubSeq(entries, 1, n), 1)],
                key, removeThrows)

\* if (saved !== null) store.$patch(saved), within the try: when $patch throws
\* (pinia's merge assigning to a frozen object, a subscriber of the store
\* throwing after the merge) the catch block runs.  merged is the number of
\* the record's entries merged before $patch threw, -1 when it returns.
restoreSaved(x, key, saved, merged, removeThrows) ==
    IF saved = JsNull
    THEN [x EXCEPT !.log = Append(@, Ev("getStorageSync", key, <<>>, TRUE))]
    ELSE IF merged < 0
    THEN [x EXCEPT !.log = @ \o <<Ev("getStorageSync", key, <<>>, TRUE),
                                   Ev("$patch", key, <<>>, TRUE)>>,
                   !.state = patch(@, saved)]
    ELSE LET entries == OwnEntries(saved)
             n == IF merged < Len(entries) THEN merged ELSE Len(entries)
         IN restoreCatch(
                [x EXCEPT !.log = @ \o <<Ev("getStorageSync", key, <<>>, TRUE),
                                         Ev("$patch", key, <<>>, FALSE)>>,
                          !.state = MergeEntries(@, SubSeq(entries, 1, n), 1)],
                key, removeThrows)

\* the body of strategies.forEach in the restore step: the try holds the read,
\* the parse and the patch
restoreStrategy(c, strategy, x, getThrows, merged, removeThrows) ==
    IF getThrows
    THEN restoreCatch(
             [x EXCEPT !.log = Append(@, Ev("getStorageSync",
                                            getFullKey(c, strategy), <<>>, FALSE))],
             getFullKey(c, strategy), removeThrows)
    ELSE restoreSaved(x, getFullKey(c, strategy),
             safeParse(getStorageSync(x.storage, getFullKey(c, strategy))),
             merged, removeThrows)

\* strategies.forEach(...) of the restore step; an exception ends the loop
RECURSIVE restoreLoop(_, _, _, _, _, _)
restoreLoop(c, i, x, getFail, patchFail, removeFail) ==
    IF i > Len(strategies(c)) \/ x.threw THEN x
    ELSE restoreLoop(c, i + 1,
             restoreStrategy(c, strategies(c)[i], x, i \in getFail, patchFail[i],
                             i \in removeFail),
             getFail, patchFail, removeFail)

\* the size warning: logged, and the write goes on
sizeWarning(c, key, json) ==
    IF getByteLength(c, json) > SizeLimit
    THEN <<Ev("console.warn", key, <<>>, TRUE)>> ELSE <<>>

\* the dispatch as it would be if a new asynchronous write cancelled the
\* writes to the same key still in flight
dispatchSuperseding(c, x, key, json, async, setThrows) ==
    IF async
    THEN [x EXCEPT !.log = @ \o sizeWarning(c, key, json)
                              \o <<Ev("setStorage", key, json, TRUE)>>,
                   !.inflight = [w \in {v \in BagToSet(@) : v.key # key} |-> @[w]]
                                (+) SetToBag({[key |-> key, data |-> json]})]
    ELSE IF setThrows
    THEN [x EXCEPT !.log = @ \o sizeWarning(c, key, json)
                              \o <<Ev("setStorageSync", key, json, FALSE)>>]
    ELSE [x EXCEPT !.log = @ \o sizeWarning(c, key, json)
                              \o <<Ev("setStorageSync", key, json, TRUE)>>,
                   !.storage = setStorageSync(@, key, json)]

\* the dispatch of one write of json to key
dispatch(c, x, key, json, async, setThrows) ==
    IF async
    THEN [x EXCEPT !.log = @ \o sizeWarning(c, key, json)
                              \o <<Ev("setStorage", key, json, TRUE)>>,
                   !.inflight = @ (+) SetToBag({[key |-> key, data |-> json]})]
    ELSE IF setThrows
    THEN \* catch (err): console.error
         [x EXCEPT !.log = @ \o sizeWarning(c, key, json)
                              \o <<Ev("setStorageSync", key, json, FALSE)>>]
    ELSE [x EXCEPT !.log = @ \o sizeWarning(c, key, json)
                              \o <<Ev("setStorageSync", key, json, TRUE)>>,
                   !.storage = setStorageSync(@, key, json)]

\* the body of strategies.forEach in the $subscribe callback
saveStrategy(c, strategy, x, setThrows) ==
    dispatch(c, x, getFullKey(c, strategy),
             safeStringify(pick(x.state, strategyPaths(strategy)), NoHeap),
             shouldUseAsync(c, strategy), setThrows)

\* the $subscribe callback as it would be without the try/catch around
\* uni.setStorageSync: the exception ends the loop and the callback
RECURSIVE subscriberUnguarded(_, _, _, _)
subscriberUnguarded(c, i, x, setFail) ==
    IF i > Len(strategies(c)) THEN x
    ELSE IF i \in setFail /\ ~shouldUseAsync(c, strategies(c)[i])
    THEN [saveStrategy(c, strategies(c)[i], x, TRUE) EXCEPT !.threw = TRUE]
    ELSE subscriberUnguarded(c, i + 1, saveStrategy(c, strategies(c)[i], x, FALSE),
                             setFail)

\* the $subscribe callback: (_mutation, state) => strategies.forEach(...)
RECURSIVE subscriber(_, _, _, _)
subscriber(c, i, x, setFail) ==
    IF i > Len(strategies(c)) THEN x
    ELSE subscriber(c, i + 1, saveStrategy(c, strategies(c)[i], x, i \in setFail),
                    setFail)

\* the removals of the $reset wrapper, each in its own try/catch
RECURSIVE removeLoop(_, _, _, _)
removeLoop(c, i, x, removeFail) ==
    IF i > Len(strategies(c)) THEN x
    ELSE LET key == getFullKey(c, strategies(c)[i])
         IN removeLoop(c, i + 1,
                IF i \in removeFail
                THEN [x EXCEPT !.log = Append(@, Ev("removeStorageSync", key, <<>>, FALSE))]
                ELSE [x EXCEPT !.log = Append(@, Ev("removeStorageSync", key, <<>>, TRUE)),
                               !.storage = removeStorageSync(@, key)],
                removeFail)

\* nothing installed: the store as pinia made it
NotInstalled == [subscribed |-> FALSE, flush |-> "none", resetWrapped |-> FALSE]

\* the flush as it would be if the subscription were always batched
subscribeFlushPost(c) == "post"

\* flush: globalAsync ? 'post' : 'sync'
subscribeFlush(c) == IF globalAsync(c) THEN "post" ELSE "sync"

\* after the restore loop: afterRestore, $subscribe, the $reset wrapper
afterRestore(c, restored) ==
    IF restored.threw THEN [x |-> restored, installed |-> NotInstalled]
    ELSE [x |-> callHook(c, "afterRestore", restored),
          installed |-> [subscribed |-> TRUE,
                         flush |-> subscribeFlush(c),
                         resetWrapped |-> c.hasReset]]

\* what createUniPersistPlugin's closure does for one store: the context after
\* it, and what it left installed on the store
plugin(c, x, getFail, patchFail, removeFail) ==
    IF ~persistEnabled(c) THEN [x |-> x, installed |-> NotInstalled]
    ELSE afterRestore(c, restoreLoop(c, 1, callHook(c, "beforeRestore", x),
                                     getFail, patchFail, removeFail))

\* pinia delivering a mutation to the subscriptions of the store
notify(c, x, inst, setFail) ==
    IF inst.subscribed THEN subscriber(c, 1, x, setFail) ELSE x

\* pinia's own $reset: the state is patched back to state() and the
\* subscriptions are triggered from within the patch. It may throw instead
\* (state() throwing; a setup store, whose $reset only throws in development),
\* and then nothing has changed.
storeReset(c, x, inst, setFail, resetThrows) ==
    IF resetThrows THEN [x EXCEPT !.resetThrew = TRUE]
    ELSE notify(c, [x EXCEPT !.state = originalReset(@, c.defaults)], inst, setFail)

\* the wrapper after originalReset.call(this): nothing guards that call, so the
\* removals are reached only when it returns
resetRemovals(c, r, removeFail) ==
    IF r.resetThrew THEN r ELSE removeLoop(c, 1, r, removeFail)

\* store.$reset() as the application sees it: the wrapper if one is installed
reset(c, x, inst, setFail, removeFail, resetThrows) ==
    IF inst.resetWrapped
    THEN resetRemovals(c, storeReset(c, x, inst, setFail, resetThrows), removeFail)
    ELSE storeReset(c, x, inst, setFail, resetThrows)

\* clearStore(key) and clearAll()
clearStore(store, key) == removeStorageSync(store, key)
clearAll(store) == <<>>

\* the strategies whose setStorageSync threw in the handler that logged l
ThrownWrites(l) ==
    LET w == SelectSeq(l, LAMBDA e : e.op \in {"setStorage", "setStorageSync"})
    IN {i \in 1..Len(w) : ~w[i].ok}


(***************************************************************************)
(* The stores and backends the model is run on                             *)
(***************************************************************************)
\* number of application steps (assignments and resets) followed after attach
MaxSteps == 2

\* the most entries of a record merged before a $patch that throws threw: the
\* records below hold two entries at most
MaxMerged == 2

\* the store's state(): { token: '', count: 0 }
Defaults == <<Prop(Txt("token"), JsStr(<<>>)), Prop(Txt("count"), JsNum(0))>>

\* a strategy with no option at all: {}
EmptyStrategy == [k \in {} |-> TRUE]

FullAndTok == <<[key |-> Txt("full")], [key |-> Txt("tok"), paths |-> <<Txt("token")>>]>>
SyncAndAsync == <<[key |-> Txt("full"), async |-> FALSE],
                  [key |-> Txt("tok"), paths |-> <<Txt("token")>>, async |-> TRUE]>>
NoKeyAndEmptyKey == <<[paths |-> <<Txt("token")>>],
                      [key |-> <<>>, paths |-> <<Txt("count"), Txt("missing")>>]>>

\* a persist option with both hooks given; async: "absent", "true" or "false"
Hooked == [enabled |-> TRUE, beforeRestore |-> TRUE, afterRestore |-> TRUE]
Persist(list, async) ==
    IF async = "absent" THEN ("strategies" :> list) @@ Hooked
    ELSE ("strategies" :> list) @@ ("async" :> (async = "true")) @@ Hooked

\* a store definition, on a platform that has TextEncoder, and the same with
\* createUniPersistPlugin({ keyPrefix })
Store(id, persist) ==
    [storeId |-> id, defaults |-> Defaults, hasReset |-> TRUE, persist |-> persist,
     textEncoder |-> TRUE]
Prefixed(c, prefix) == ("keyPrefix" :> prefix) @@ c

Configs ==
    \* every store-level async setting against strategies with and without one
    { Store(Txt("user"), Persist(list, async)) :
        list \in {FullAndTok, SyncAndAsync, NoKeyAndEmptyKey},
        async \in {"absent", "true", "false"} }
    \* a key prefix
    \cup { Prefixed(Store(Txt("user"), Persist(list, "absent")), Txt("app_")) :
             list \in {FullAndTok, NoKeyAndEmptyKey} }
    \* the implicit strategy: no list, an empty list; and a strategy with no option
    \cup { Store(Txt("user"), Hooked),
           Prefixed(Store(Txt("user"), Persist(<<>>, "absent")), Txt("app_")),
           Prefixed(Store(Txt("cart"), Persist(<<EmptyStrategy>>, "false")), <<>>) }
    \* a platform without TextEncoder
    \cup { [Store(Txt("cart"), Persist(NoKeyAndEmptyKey, "absent"))
               EXCEPT !.textEncoder = FALSE] }
    \* no hooks
    \cup { Store(Txt("user"), [enabled |-> TRUE, beforeRestore |-> FALSE,
                          afterRestore |-> FALSE]) }
    \* persistence not enabled: no persist option, enabled false, enabled absent
    \cup { [storeId |-> Txt("user"), defaults |-> Defaults, hasReset |-> TRUE,
            textEncoder |-> TRUE],
           Store(Txt("user"), ("enabled" :> FALSE) @@ Persist(FullAndTok, "absent")),
           Prefixed(Store(Txt("user"), [beforeRestore |-> TRUE, afterRestore |-> TRUE,
                                   async |-> FALSE]), Txt("app_")) }

\* what the backend may hold when the store is created
RecFull == Txt("{\"token\":\"abc\",\"count\":5}")
RecTok == Txt("{\"token\":\"xyz\"}")
Corrupt == Txt("{bad")
FullKeys == {Txt("user"), Txt("cart"), Txt("full"), Txt("app_user"), Txt("app_full")}
TokKeys == {Txt("tok"), Txt("app_tok")}

\* a record another program stored as an object, not as text; '' stands for
\* no entry below
RecNative == JsObj(<<Prop(Txt("token"), JsStr(Txt("nat"))), Prop(Txt("count"), JsNum(2))>>)

InitStorage(full, tok) ==
    [k \in (IF full = JsStr(<<>>) THEN {} ELSE FullKeys)
           \cup (IF tok = JsStr(<<>>) THEN {} ELSE TokKeys) \cup {Txt("other")} |->
        IF k \in FullKeys THEN full
        ELSE IF k \in TokKeys THEN tok
        ELSE JsStr(Txt("\"keep\""))]

InitStorages ==
    { InitStorage(JsStr(<<>>), JsStr(<<>>)),
      InitStorage(JsStr(RecFull), JsStr(RecTok)),
      InitStorage(JsStr(Corrupt), JsStr(RecTok)),
      InitStorage(JsStr(RecFull), JsStr(Corrupt)),
      InitStorage(JsStr(Corrupt), JsStr(<<>>)),
      InitStorage(RecNative, JsStr(RecTok)) }

\* the assignments the application makes: store.token = ..., store.count = ...
Assignments == {Prop(Txt("token"), JsStr(Txt("abc"))), Prop(Txt("count"), JsNum(1))}

\* the strategies whose backend calls may be made to throw
Indices(c) == IF persistEnabled(c) THEN 1..Len(strategies(c)) ELSE {}

(***************************************************************************)
(* The state machine                                                       *)
(***************************************************************************)
CodecIdle == /\ cin = JsNull /\ cjson = <<>> /\ cout = JsNull /\ cpc = "off"
PickIdle == /\ pin = JsNull /\ pout = JsNull /\ ppc = "off"

Init ==
    /\ cfg \in Configs
    /\ storage \in InitStorages
    /\ phase = "created"
    /\ state = cfg.defaults
    /\ inflight = EmptyBag
    /\ pending = FALSE
    /\ installed = NotInstalled
    /\ last = "create"
    /\ log = <<>>
    /\ threw = FALSE
    /\ steps = 0
    /\ storage0 = storage
    /\ sinceReset = "no"
    /\ failedBefore = {}
    /\ tick = <<>>
    /\ CodecIdle
    /\ PickIdle

\* the handler's context becomes the new state; the failures of the handler
\* before it become earlier failures
Commit(x) ==
    /\ state' = x.state
    /\ storage' = x.storage
    /\ inflight' = x.inflight
    /\ log' = x.log
    /\ threw' = x.threw
    /\ failedBefore' = failedBefore \cup ThrownWrites(log)

\* the plugin's outcome r becomes the new state
Attached(r) ==
    /\ Commit(r.x)
    /\ installed' = r.installed
    /\ phase' = IF r.x.threw THEN "crashed" ELSE "attached"

\* the current tick has run to its end
Ended(t) == \E n \in 1..Len(t) : t[n] = "end"
\* application code is running, or has run, in a tick that has not ended
InTick == tick # <<>> /\ ~Ended(tick)
\* the tick the next application step belongs to
Current == IF Ended(tick) THEN <<>> ELSE tick

\* pinia creates the store and runs the plugin on it
Attach ==
    /\ phase = "created"
    /\ \E getFail \in SUBSET Indices(cfg), removeFail \in SUBSET Indices(cfg),
          patchFail \in [Indices(cfg) -> -1..MaxMerged] :
         Attached(plugin(cfg, Ctx(state, storage, inflight), getFail, patchFail,
                         removeFail))
    /\ last' = "attach"
    /\ UNCHANGED <<cfg, pending, steps, storage0, sinceReset, tick, codecVars, pickVars>>

\* the application assigns a field: the 'sync' watcher calls the subscriber at
\* once, the 'post' watcher queues one job for the end of the tick
Assign ==
    /\ phase = "attached"
    /\ steps < MaxSteps
    /\ \E a \in Assignments, setFail \in SUBSET Indices(cfg) :
         /\ GetProp(state, a.k) # a.v
         /\ Commit(IF installed.flush = "sync"
                   THEN notify(cfg, Ctx(SetProp(state, a.k, a.v), storage, inflight),
                               installed, setFail)
                   ELSE Ctx(SetProp(state, a.k, a.v), storage, inflight))
         /\ pending' = (installed.flush = "post")
    /\ tick' = Current \o (IF installed.flush = "sync" THEN <<"assign", "notify">>
                           ELSE <<"assign">>)
    /\ last' = "assign"
    /\ steps' = steps + 1
    /\ sinceReset' = "no"
    /\ UNCHANGED <<cfg, phase, installed, storage0, codecVars, pickVars>>

\* the tick ends: the queued 'post' job, if there is one, calls the subscriber
Tick ==
    /\ phase = "attached"
    /\ InTick
    /\ \E setFail \in SUBSET Indices(cfg) :
         Commit(IF pending
                THEN notify(cfg, Ctx(state, storage, inflight), installed, setFail)
                ELSE Ctx(state, storage, inflight))
    /\ tick' = tick \o (IF pending THEN <<"end", "notify">> ELSE <<"end">>)
    /\ last' = IF pending THEN "tick" ELSE "idle"
    /\ pending' = FALSE
    /\ UNCHANGED <<cfg, phase, installed, steps, storage0, sinceReset, codecVars,
                   pickVars>>

\* the application calls store.$reset(); the patch inside it mutes the watcher
\* for the tick, so a queued job is not delivered
Reset ==
    /\ phase = "attached"
    /\ cfg.hasReset
    /\ steps < MaxSteps
    /\ \E setFail \in SUBSET Indices(cfg), removeFail \in SUBSET Indices(cfg),
          resetThrows \in BOOLEAN :
         /\ Commit(reset(cfg, Ctx(state, storage, inflight), installed, setFail,
                         removeFail, resetThrows))
         /\ sinceReset' = IF resetThrows THEN "aborted"
                          ELSE IF removeFail = {} THEN "clean" ELSE "failed"
         /\ pending' = (resetThrows /\ pending)
         /\ tick' = Current \o (IF ~resetThrows /\ installed.subscribed
                                THEN <<"reset", "notify">> ELSE <<"reset">>)
    /\ last' = "reset"
    /\ steps' = steps + 1
    /\ UNCHANGED <<cfg, phase, installed, storage0, codecVars, pickVars>>

\* the backend completes one uni.setStorage, whichever it likes, with success
\* or with the fail callback (which logs); it does so in a task of its own
AsyncComplete ==
    /\ phase = "attached"
    /\ ~InTick
    /\ \E w \in BagToSet(inflight), ok \in BOOLEAN :
         /\ inflight' = inflight (-) SetToBag({w})
         /\ storage' = IF ok THEN setStorageSync(storage, w.key, w.data) ELSE storage
         /\ log' = <<Ev(IF ok THEN "setStorage:success" ELSE "setStorage:fail",
                        w.key, w.data, ok)>>
    /\ last' = "complete"
    /\ threw' = FALSE
    /\ tick' = <<>>
    /\ failedBefore' = failedBefore \cup ThrownWrites(log)
    /\ UNCHANGED <<cfg, phase, state, pending, installed, steps, storage0, sinceReset,
                   codecVars, pickVars>>

\* what a clear utility leaves: the backend and the baseline lose the same
\* keys, the store and the plugin are not involved
Cleared(sto, sto0) ==
    /\ storage' = sto
    /\ storage0' = sto0
    /\ log' = <<>>
    /\ threw' = FALSE
    /\ last' = "clear"
    /\ steps' = steps + 1
    /\ tick' = Current \o <<"clear">>
    /\ failedBefore' = failedBefore \cup ThrownWrites(log)
    /\ UNCHANGED <<cfg, phase, state, inflight, pending, installed, sinceReset,
                   codecVars, pickVars>>

\* the application calls clearStore(key)
ClearStore ==
    /\ phase = "attached"
    /\ steps < MaxSteps
    /\ \E key \in {Txt("other"), cfg.storeId} \cap DOMAIN storage :
         Cleared(clearStore(storage, key), clearStore(storage0, key))

\* the application calls clearAll()
ClearAll ==
    /\ phase = "attached"
    /\ steps < MaxSteps
    /\ storage # <<>>
    /\ Cleared(clearAll(storage), clearAll(storage0))

Next == Attach \/ Assign \/ Tick \/ Reset \/ AsyncComplete \/ ClearStore \/ ClearAll

Spec == Init /\ [][Next]_vars


(***************************************************************************)
(* The codec on its own: a value is encoded, and the text decoded          *)
(***************************************************************************)
\* the values a field may hold
Leaves ==
    {Undefined, JsNull, JsStr(Txt("a")), JsStr(Txt("x") \o <<10>> \o Txt("y\"z")),
     JsStr(<<233, 55357, 56832>>), JsNum(7), JsNumber(FALSE, <<1, 5>>, -1),
     JsNumber(TRUE, <<1>>, 21), JsBig(12), JsDate(5), JsDateAt(19849, 25689010)}

\* snapshots: v is the snapshot, heap holds the objects it refers to by identity
CodecInputs ==
    \* two top-level fields
    { [v |-> JsObj(<<Prop(Txt("a"), x), Prop(Txt("b"), y)>>), heap |-> NoHeap] :
        x \in Leaves, y \in Leaves }
    \* a nested object, and a nested array
    \cup { [v |-> JsObj(<<Prop(Txt("a"), JsObj(<<Prop(Txt("b"), x)>>))>>), heap |-> NoHeap] :
             x \in Leaves }
    \cup { [v |-> JsObj(<<Prop(Txt("a"), JsArr(<<x, JsNum(0)>>))>>), heap |-> NoHeap] :
             x \in Leaves }
    \* one object held by two fields
    \cup { [v |-> JsObj(<<Prop(Txt("a"), Ref(1)), Prop(Txt("b"), Ref(1))>>),
            heap |-> <<JsObj(<<Prop(Txt("n"), x)>>)>>] : x \in Leaves }
    \* an object that holds itself: s.self = s
    \cup { [v |-> Ref(1), heap |-> <<JsObj(<<Prop(Txt("n"), x), Prop(Txt("self"), Ref(1))>>)>>] :
             x \in Leaves }

MainIdle ==
    /\ cfg = [storeId |-> Txt("user"), defaults |-> Defaults, hasReset |-> TRUE,
              textEncoder |-> TRUE]
    /\ phase = "codec"
    /\ state = Defaults
    /\ storage = <<>>
    /\ inflight = EmptyBag
    /\ pending = FALSE
    /\ installed = NotInstalled
    /\ last = "create"
    /\ log = <<>>
    /\ threw = FALSE
    /\ steps = 0
    /\ storage0 = <<>>
    /\ sinceReset = "no"
    /\ failedBefore = {}
    /\ tick = <<>>

mainVars == <<cfg, phase, state, storage, inflight, pending, installed, last, log,
              threw, steps, storage0, sinceReset, failedBefore, tick>>

CodecInit ==
    /\ MainIdle
    /\ cin \in CodecInputs
    /\ cjson = <<>>
    /\ cout = JsNull
    /\ cpc = "input"
    /\ PickIdle

\* json = safeStringify(data)
Encode ==
    /\ cpc = "input"
    /\ cjson' = safeStringify(cin.v, cin.heap)
    /\ cpc' = "encoded"
    /\ UNCHANGED <<cin, cout>>
    /\ UNCHANGED <<mainVars, pickVars>>

\* saved = safeParse(raw)
Decode ==
    /\ cpc = "encoded"
    /\ cout' = safeParse(JsStr(cjson))
    /\ cpc' = "decoded"
    /\ UNCHANGED <<cin, cjson>>
    /\ UNCHANGED <<mainVars, pickVars>>

\* a second, separate safeStringify(data) of the same value
Reencode ==
    /\ cpc = "decoded"
    /\ cjson' = safeStringify(cin.v, cin.heap)
    /\ cpc' = "reencoded"
    /\ UNCHANGED <<cin, cout>>
    /\ UNCHANGED <<mainVars, pickVars>>

CodecNext == Encode \/ Decode \/ Reencode

SpecCodec == CodecInit /\ [][CodecNext]_vars


(***************************************************************************)
(* The projector on its own: pick applied to a snapshot and a strategy     *)
(***************************************************************************)
\* longest paths list tried
MaxPaths == 2

\* the snapshots: { a: 1, b: 2, c: 3 }, { a: 1, b: 2 }, { a: 1 }, { a: undefined }
PickSnapshots ==
    { <<Prop(Txt("a"), JsNum(1)), Prop(Txt("b"), JsNum(2)), Prop(Txt("c"), JsNum(3))>>,
      <<Prop(Txt("a"), JsNum(1)), Prop(Txt("b"), JsNum(2))>>,
      <<Prop(Txt("a"), JsNum(1))>>,
      <<Prop(Txt("a"), Undefined)>>,
      <<Prop(Txt("1"), JsStr(Txt("x"))), Prop(Txt("b"), JsNum(2))>> }

\* the names a paths list may hold
PickNames ==
    {Txt("a"), Txt("b"), Txt("1"), Txt("missing"), Txt("toString"),
     Txt("isPrototypeOf"), Txt("__proto__")}

\* strategies with no paths, and with every paths list up to MaxPaths names
PickStrategies ==
    {EmptyStrategy}
    \cup { [paths |-> l] : l \in UNION {[1..n -> PickNames] : n \in 0..MaxPaths} }

PickInit ==
    /\ MainIdle
    /\ CodecIdle
    /\ pin \in [props : PickSnapshots, strategy : PickStrategies]
    /\ pout = JsNull
    /\ ppc = "input"

\* data = pick(state, strategy.paths)
Pick ==
    /\ ppc = "input"
    /\ pout' = pick(pin.props, strategyPaths(pin.strategy))
    /\ ppc' = "picked"
    /\ UNCHANGED pin
    /\ UNCHANGED <<mainVars, codecVars>>

PickNext == Pick

SpecPick == PickInit /\ [][PickNext]_vars


(***************************************************************************)
(* What the claims speak of, read off the store definition itself          *)
(***************************************************************************)
\* the store declares persistence and enables it
DeclaredEnabled ==
    /\ "persist" \in DOMAIN cfg
    /\ "enabled" \in DOMAIN cfg.persist
    /\ cfg.persist.enabled = TRUE

\* the configured strategies, or the single implicit one
DeclaredStrategies ==
    IF "strategies" \in DOMAIN cfg.persist /\ cfg.persist.strategies # <<>>
    THEN cfg.persist.strategies
    ELSE <<[key |-> cfg.storeId]>>

DeclaredPrefix == IF "keyPrefix" \in DOMAIN cfg THEN cfg.keyPrefix ELSE <<>>

\* prefix + (strategyKey ?? storeId): only an absent key gives way to the store id
NullishKey(i) ==
    DeclaredPrefix \o (IF "key" \in DOMAIN DeclaredStrategies[i]
                       THEN DeclaredStrategies[i].key ELSE cfg.storeId)

\* prefix + (strategyKey || storeId): an absent or empty key gives way to the store id
FalsyKey(i) ==
    DeclaredPrefix \o (IF "key" \in DOMAIN DeclaredStrategies[i]
                          /\ DeclaredStrategies[i].key # <<>>
                       THEN DeclaredStrategies[i].key ELSE cfg.storeId)

\* an optional boolean setting as declared
Setting(r) ==
    IF "async" \notin DOMAIN r THEN "absent" ELSE IF r.async THEN "true" ELSE "false"

Gets == SelectSeq(log, LAMBDA e : e.op = "getStorageSync")
Writes == SelectSeq(log, LAMBDA e : e.op \in {"setStorage", "setStorageSync"})
Removes == SelectSeq(log, LAMBDA e : e.op = "removeStorageSync")
Calls(op) == Len(SelectSeq(log, LAMBDA e : e.op = op))

\* the last step was the plugin running on a store that enables persistence
AfterAttach == last = "attach" /\ DeclaredEnabled

\* the last step delivered one mutation notification to the subscriber
Notified ==
    /\ DeclaredEnabled
    /\ phase = "attached"
    /\ \/ last = "tick"
       \/ last = "assign" /\ installed.flush = "sync"
       \/ last = "reset" /\ installed.subscribed /\ sinceReset # "aborted"

\* C1 (as claimed): once $reset has run (its removals not failing) and no write
\* is in flight any more, the state is what the original reset produces and
\* every strategy key is absent from the backend.
C1_ResetPurges ==
    (DeclaredEnabled /\ sinceReset = "clean" /\ inflight = EmptyBag) =>
        /\ state = cfg.defaults
        /\ \A i \in 1..Len(DeclaredStrategies) : FalsyKey(i) \notin DOMAIN storage

\* C2 (as claimed): a corrupted value at a strategy's key when the plugin
\* attaches (no backend call failing) is removed, attach does not throw, and
\* a store whose keys hold nothing else keeps its declared defaults.
C2_CorruptRemoved ==
    (AfterAttach /\ \A n \in 1..Len(log) : log[n].ok) =>
        \A i \in 1..Len(DeclaredStrategies) :
            getStorageSync(storage0, FalsyKey(i)) = JsStr(Corrupt) =>
                /\ ~threw
                /\ FalsyKey(i) \notin DOMAIN storage
                /\ (\A j \in 1..Len(DeclaredStrategies) :
                        getStorageSync(storage0, FalsyKey(j))
                            \in {JsStr(Corrupt), JsStr(<<>>)})
                   => state = cfg.defaults

\* the record text holds exactly the wanted fields, each with the state's value
PayloadHolds(data, wanted) ==
    LET d == safeParse(JsStr(data))
    IN /\ d.t = "object"
       /\ {d.props[n].k : n \in 1..Len(d.props)} = wanted
       /\ \A k \in wanted : GetProp(d.props, k) = GetProp(state, k)

StateFields == {state[n].k : n \in 1..Len(state)}

\* the fields strategy i persists: all of them, or the listed ones that exist
WantedFields(i) ==
    IF "paths" \notin DOMAIN DeclaredStrategies[i] \/ DeclaredStrategies[i].paths = <<>>
    THEN StateFields
    ELSE {DeclaredStrategies[i].paths[n] : n \in 1..Len(DeclaredStrategies[i].paths)}
         \cap StateFields

\* C3: a mutation notification dispatches exactly one write per strategy, in
\* declaration order, each to that strategy's key with the record of that
\* strategy's fields; for [{key:"full"}, {paths:["token"], key:"tok"}] that is
\* the whole state to "full" and the token alone to "tok".
C3_OneWritePerStrategy ==
    Notified =>
        /\ Len(Writes) = Len(DeclaredStrategies)
        /\ \A i \in 1..Len(DeclaredStrategies) :
              /\ Writes[i].key = FalsyKey(i)
              /\ PayloadHolds(Writes[i].data, WantedFields(i))
        /\ (DeclaredStrategies = FullAndTok
            /\ state = <<Prop(Txt("token"), JsStr(Txt("abc"))), Prop(Txt("count"), JsNum(0))>>)
           => /\ Writes[1].data = Txt("{\"token\":\"abc\",\"count\":0}")
              /\ Writes[2].data = Txt("{\"token\":\"abc\"}")

C3_Witness ==
    /\ Notified
    /\ DeclaredStrategies = FullAndTok
    /\ Len(Writes) = 2
    /\ Writes[1].key = DeclaredPrefix \o Txt("full")
    /\ Writes[2].key = DeclaredPrefix \o Txt("tok")
    /\ Writes[1].data = Txt("{\"token\":\"abc\",\"count\":0}")
    /\ Writes[2].data = Txt("{\"token\":\"abc\"}")

\* the nine combinations of the store-level and the strategy-level setting
\* that dispatch asynchronously
AsyncCombinations ==
    { <<"absent", "absent">>, <<"absent", "true">>, <<"true", "absent">>,
      <<"true", "true">>, <<"false", "true">> }

\* C5: a strategy's write is asynchronous exactly when (global async, absent
\* counting as true, and the strategy did not set async to false) or the
\* strategy set async to true.
C5_WriteMode ==
    Notified =>
        \A i \in 1..Len(Writes) :
            (Writes[i].op = "setStorage")
              <=> (<<Setting(cfg.persist), Setting(DeclaredStrategies[i])>>
                     \in AsyncCombinations)

C5_Witness ==
    /\ Notified
    /\ Len(Writes) = 2
    /\ Setting(cfg.persist) = "false"
    /\ Setting(DeclaredStrategies[1]) = "false" /\ Writes[1].op = "setStorageSync"
    /\ Setting(DeclaredStrategies[2]) = "true" /\ Writes[2].op = "setStorage"

\* the restore reads, the mutation writes and the reset removals of strategy
\* i all use Key(i); a removal of the restore has the key of the read before it
KeysFollow(Key(_)) ==
    /\ AfterAttach =>
          /\ \A i \in 1..Len(Gets) : Gets[i].key = Key(i)
          /\ \A n \in 1..Len(log) :
                log[n].op = "removeStorageSync" =>
                    \E m \in 1..n - 1 :
                        /\ log[m].op = "getStorageSync"
                        /\ log[m].key = log[n].key
                        /\ \A j \in m + 1..n - 1 : log[j].op = "$patch"
    /\ Notified =>
          /\ Len(Writes) = Len(DeclaredStrategies)
          /\ \A i \in 1..Len(Writes) : Writes[i].key = Key(i)
    /\ (DeclaredEnabled /\ last = "reset") =>
          /\ sinceReset # "aborted" => Len(Removes) = Len(DeclaredStrategies)
          /\ \A i \in 1..Len(Removes) : Removes[i].key = Key(i)

\* C6 (as claimed): the key of a strategy is prefix + (strategyKey ?? storeId),
\* an empty strategy key being kept as given, in the restore read, in every
\* mutation write and in the reset removal.
C6_NullishKey == KeysFollow(NullishKey)

\* C6 (amended): the key of a strategy is prefix + (strategyKey || storeId),
\* the store id standing in for an absent or empty strategy key, in the
\* restore read, in every mutation write and in the reset removal.
C6_FalsyKey == KeysFollow(FalsyKey)

C6_Witness ==
    /\ DeclaredEnabled
    /\ last = "reset"
    /\ \E i \in 1..Len(DeclaredStrategies) :
          /\ "key" \in DOMAIN DeclaredStrategies[i]
          /\ DeclaredStrategies[i].key = <<>>
          /\ Len(Removes) >= i /\ Removes[i].key = DeclaredPrefix \o cfg.storeId
          /\ Len(Writes) >= i /\ Writes[i].key = DeclaredPrefix \o cfg.storeId
          /\ DeclaredPrefix = Txt("app_")

\* C7: without an enabled persist configuration the plugin does nothing: no
\* backend call and no hook call at attach or later, no state patch, no
\* subscription, and $reset left unwrapped.
C7_DisabledInert ==
    (~DeclaredEnabled) =>
        /\ log = <<>>
        /\ storage = storage0
        /\ inflight = EmptyBag
        /\ ~pending
        /\ installed = NotInstalled
        /\ ~threw
        /\ last = "attach" => state = cfg.defaults
        /\ (last = "reset" /\ sinceReset # "aborted") => state = cfg.defaults

C7_Witness ==
    /\ ~DeclaredEnabled
    /\ "persist" \in DOMAIN cfg
    /\ last = "reset"
    /\ sinceReset = "clean"
    /\ steps = MaxSteps
    /\ Txt("full") \in DOMAIN storage

\* C8 (as claimed): on every attach of a store with persistence enabled (and
\* both hooks given) beforeRestore is called exactly once, before anything
\* else, and afterRestore exactly once, after everything else.
C8_HooksOnce ==
    (AfterAttach /\ cfg.persist.beforeRestore /\ cfg.persist.afterRestore) =>
        /\ Calls("beforeRestore") = 1
        /\ log[1].op = "beforeRestore"
        /\ Calls("afterRestore") = 1
        /\ log[Len(log)].op = "afterRestore"

\* C9 (as claimed): whatever backend calls throw, no handler of the plugin
\* lets an exception escape to the application.
C9_NothingEscapes == ~threw

\* C10 (as claimed): when the read of a strategy throws during attach, its key
\* is removed, no patch is applied for it, and every later strategy is still
\* read and restored.
C10_ReadFailureContained ==
    AfterAttach =>
        \A n \in 1..Len(log) :
            (log[n].op = "getStorageSync" /\ ~log[n].ok) =>
                /\ log[n].key \notin DOMAIN storage
                /\ (n < Len(log) => log[n + 1].op # "$patch")
                /\ Len(Gets) = Len(DeclaredStrategies)
                /\ ~threw


\* no object of the value is reached again from within itself
RECURSIVE NoCycle(_, _, _)
NoCycle(v, heap, path) ==
    CASE v.t = "ref" ->
           v.id \notin path /\ NoCycle(heap[v.id], heap, path \cup {v.id})
      [] v.t = "object" ->
           \A n \in 1..Len(v.props) : NoCycle(v.props[n].v, heap, path)
      [] v.t = "array" -> \A n \in 1..Len(v.elems) : NoCycle(v.elems[n], heap, path)
      [] OTHER -> TRUE

\* the decoded value d is the snapshot's value v up to the differences the
\* claim allows; the snapshot's own fields are at depth 1
RECURSIVE SameUpTo(_, _, _, _)
SameUpTo(v, heap, d, depth) ==
    CASE v.t = "ref" -> SameUpTo(heap[v.id], heap, d, depth)
      [] v.t \in {"undefined", "null"} -> d = JsNull
      [] v.t = "bigint" -> d = JsStr(NumToStr(v.n))
      [] v.t = "date" -> depth > 1 \/ d = v
      [] v.t = "object" ->
           /\ d.t = "object"
           /\ Len(d.props) = Len(v.props)
           /\ \A n \in 1..Len(v.props) :
                 /\ d.props[n].k = v.props[n].k
                 /\ SameUpTo(v.props[n].v, heap, d.props[n].v, depth + 1)
      [] v.t = "array" ->
           /\ d.t = "array"
           /\ Len(d.elems) = Len(v.elems)
           /\ \A n \in 1..Len(v.elems) :
                 SameUpTo(v.elems[n], heap, d.elems[n], depth + 1)
      [] OTHER -> d = v

\* C4 (as claimed): for a snapshot without cyclic reference, decode(encode(s))
\* is s up to: undefined becomes null, a big integer its decimal string, a
\* date below the top-level fields need not round-trip; a date in a top-level
\* field comes back as an equal date.
C4_RoundTrip ==
    (cpc = "decoded" /\ NoCycle(cin.v, cin.heap, {})) =>
        SameUpTo(cin.v, cin.heap, cout, 0)


\* the write of strategy i is the last one of this notification to its key
LastToKey(i) == \A j \in (i + 1)..Len(Writes) : Writes[j].key # Writes[i].key

\* the write of strategy i has been handed to the backend: an asynchronous
\* one is in flight, a synchronous one that did not throw is stored (unless
\* the reset wrapper has removed the key since)
Dispatched(i) ==
    /\ Writes[i].key = FalsyKey(i)
    /\ Writes[i].op = "setStorage" =>
          BagIn([key |-> Writes[i].key, data |-> Writes[i].data], inflight)
    /\ (Writes[i].op = "setStorageSync" /\ Writes[i].ok /\ LastToKey(i)
        /\ last # "reset") =>
          getStorageSync(storage, Writes[i].key) = JsStr(Writes[i].data)

\* C11: when a synchronous write throws for one strategy, the writes of all
\* other strategies of that notification are still dispatched, and every
\* later notification dispatches a write for every strategy again, the one
\* that failed included.
C11_WriteFailureIsolated ==
    (Notified /\ (ThrownWrites(log) # {} \/ failedBefore # {})) =>
        /\ ~threw
        /\ Len(Writes) = Len(DeclaredStrategies)
        /\ \A i \in 1..Len(Writes) : Dispatched(i)

C11_Witness ==
    /\ Notified
    /\ last = "assign"
    /\ Len(Writes) = 2
    /\ ThrownWrites(log) = {1}
    /\ 2 \in failedBefore
    /\ Writes[2].op = "setStorageSync"
    /\ getStorageSync(storage, Writes[2].key) = JsStr(Writes[2].data)


\* the text s holds the text sub somewhere
Contains(s, sub) ==
    \E i \in 1..(Len(s) - Len(sub) + 1) : SubSeq(s, i, i + Len(sub) - 1) = sub

\* C12 (as claimed): encoding a graph with a cycle (s.self = s) ends with each
\* cyclic edge written as the string "[Circular]"; the seen set belongs to one
\* call, so no encoding of an object without cycle, first or repeated, holds
\* "[Circular]".
C12_CircularOnlyOnCycles ==
    cpc \in {"encoded", "decoded", "reencoded"} =>
        IF NoCycle(cin.v, cin.heap, {})
        THEN ~Contains(cjson, Txt("[Circular]"))
        ELSE Contains(cjson, Txt("\"self\":\"[Circular]\""))


\* the names of a paths list
PathNames(paths) == {paths[n] : n \in 1..Len(paths)}
\* the names of the fields of an object
FieldNames(props) == {props[n].k : n \in 1..Len(props)}

\* C13 (as claimed): with paths absent or empty pick returns an object with
\* exactly the snapshot's top-level fields and values; otherwise an object
\* whose keys are exactly the names in paths that are fields of the snapshot,
\* each with the snapshot's value, names that are no field being skipped:
\* pick({a:1}, ["missing"]) is {}.
C13_Project ==
    ppc = "picked" =>
        /\ pout.t = "object"
        /\ Cardinality(FieldNames(pout.props)) = Len(pout.props)
        /\ IF "paths" \notin DOMAIN pin.strategy \/ pin.strategy.paths = <<>>
           THEN pout.props = pin.props
           ELSE /\ FieldNames(pout.props)
                     = PathNames(pin.strategy.paths) \cap FieldNames(pin.props)
                /\ \A k \in FieldNames(pout.props) :
                      GetProp(pout.props, k) = GetProp(pin.props, k)
        /\ (pin.props = <<Prop(Txt("a"), JsNum(1))>>
            /\ pin.strategy = [paths |-> <<Txt("missing")>>]) => pout = JsObj(<<>>)


\* the record a stored value of the model stands for; nothing for any other
RecordOf(val) ==
    CASE val = JsStr(RecFull) -> <<Prop(Txt("token"), JsStr(Txt("abc"))), Prop(Txt("count"), JsNum(5))>>
      [] val = JsStr(RecTok) -> <<Prop(Txt("token"), JsStr(Txt("xyz")))>>
      [] val = RecNative -> RecNative.props
      [] OTHER -> <<>>

\* the record held at strategy i's key when the store was created
StoredRecord(i) == RecordOf(getStorageSync(storage0, FalsyKey(i)))

\* the strategies whose stored record holds field f
Holders(f) == {i \in 1..Len(DeclaredStrategies) : HasProp(StoredRecord(i), f)}

\* the largest member of a non-empty set of numbers
Latest(S) == CHOOSE i \in S : \A j \in S : j <= i

\* the value restore leaves in field f: that of the last strategy in the list
\* whose record holds f, the current (default) value if none does
Restored(f) ==
    IF Holders(f) = {} THEN GetProp(cfg.defaults, f)
    ELSE GetProp(StoredRecord(Latest(Holders(f))), f)

\* the keys of the strategies that have a record to apply, in declaration order
RECURSIVE PatchedKeys(_)
PatchedKeys(i) ==
    IF i > Len(DeclaredStrategies) THEN <<>>
    ELSE (IF StoredRecord(i) # <<>> THEN <<FalsyKey(i)>> ELSE <<>>) \o PatchedKeys(i + 1)

\* what C14 says of an attach: the strategies are read in declaration order, a
\* patch is applied for each strategy that has a record and for no other, and
\* every field holds the value of the last strategy whose record holds it
RestoredInOrder ==
    /\ Len(Gets) = Len(DeclaredStrategies)
    /\ \A i \in 1..Len(Gets) : Gets[i].key = FalsyKey(i)
    /\ [n \in 1..Calls("$patch") |->
           SelectSeq(log, LAMBDA e : e.op = "$patch")[n].key] = PatchedKeys(1)
    /\ FieldNames(state) = FieldNames(cfg.defaults)
    /\ \A f \in FieldNames(state) : GetProp(state, f) = Restored(f)

\* no call to the backend failed in the last handler
BackendCallsOk == \A n \in 1..Len(log) : log[n].op # "$patch" => log[n].ok

InFlight(e) == [key |-> e.key, data |-> e.data]

\* the asynchronous writes a handler logged that are equal to w
Logged(l, w) ==
    Len(SelectSeq(l, LAMBDA e : e.op = "setStorage" /\ InFlight(e) = w))

\* C15: a handler of the store adds its asynchronous writes to those in
\* flight and cancels none, so two writes to one key are in flight together;
\* a completion takes one write out of flight, whichever the backend picks,
\* and, when it succeeds, leaves that write's payload under its key.
C15_WritesIndependent ==
    [][ /\ last' \in {"attach", "assign", "tick", "idle", "reset", "clear"} =>
              \A w \in BagToSet(inflight) \cup BagToSet(inflight') :
                  CopiesIn(w, inflight') = CopiesIn(w, inflight) + Logged(log', w)
        /\ last' = "complete" =>
              /\ BagIn(InFlight(log'[1]), inflight)
              /\ inflight' = inflight (-) SetToBag({InFlight(log'[1])})
              /\ storage' = IF log'[1].ok
                            THEN setStorageSync(storage, log'[1].key, log'[1].data)
                            ELSE storage
              /\ log'[1].ok => getStorageSync(storage', log'[1].key) = JsStr(log'[1].data)
      ]_vars

\* the write of the second mutation has completed while the write of the first,
\* to the same key, is still in flight: the first will complete last
C15_Witness ==
    /\ last = "complete"
    /\ log[1].ok
    /\ state = <<Prop(Txt("token"), JsStr(Txt("abc"))), Prop(Txt("count"), JsNum(1))>>
    /\ log[1].data = Txt("{\"token\":\"abc\",\"count\":1}")
    /\ getStorageSync(storage, log[1].key) = JsStr(log[1].data)
    /\ BagIn([key |-> log[1].key, data |-> Txt("{\"token\":\"abc\",\"count\":0}")], inflight)


\* C16 (as claimed): within one notification no two strategies write to the
\* same storage key: the resolved keys of a store's strategies are pairwise
\* distinct, fall-backs to the store id included.
C16_DistinctKeys ==
    Notified =>
        \A i \in 1..Len(Writes), j \in 1..Len(Writes) :
            i # j => Writes[i].key # Writes[j].key


\* the current tick of an attached, persisted store holds assignments only
AssignmentsOnly ==
    /\ DeclaredEnabled
    /\ phase = "attached"
    /\ tick # <<>>
    /\ \A n \in 1..Len(tick) : tick[n] \in {"assign", "notify", "end"}

\* the assignments of the tick are delivered as one notification, after the
\* tick has run to its end
Batched ==
    /\ \A n \in 1..Len(tick) :
          tick[n] = "notify" => (n = Len(tick) /\ n > 1 /\ tick[n - 1] = "end")
    /\ Ended(tick) => tick[Len(tick)] = "notify"

\* each assignment of the tick is delivered at once, and nothing at its end
Unbatched ==
    \A n \in 1..Len(tick) :
        /\ tick[n] = "assign" => (n < Len(tick) /\ tick[n + 1] = "notify")
        /\ tick[n] = "notify" => (n > 1 /\ tick[n - 1] = "assign")

\* C17 (as claimed): the assignments made within one tick are delivered as one
\* notification after the tick completes, whatever the store-level async
\* setting.
C17_BatchedAlways == AssignmentsOnly => Batched

\* C17 (amended): with the store-level async setting true or absent the
\* assignments made within one tick are delivered as one notification after
\* the tick completes; with async false every assignment is delivered at
\* once, one notification (one write per strategy) per assignment.
C17_BatchedWhenAsync ==
    AssignmentsOnly =>
        IF Setting(cfg.persist) = "false" THEN Unbatched ELSE Batched

C17_Witness ==
    /\ AssignmentsOnly
    /\ Setting(cfg.persist) # "false"
    /\ tick = <<"assign", "assign", "end", "notify">>
    /\ Notified
    /\ Len(Writes) = Len(DeclaredStrategies)


\* the resolved keys of the store's strategies
StrategyKeys == {FalsyKey(i) : i \in 1..Len(DeclaredStrategies)}

\* C18: attach dispatches no storage write, synchronous or asynchronous, and
\* leaves none queued: restore is over before the subscription exists, so its
\* patches are not written back. The only backend calls of attach are
\* synchronous reads and removals of strategy keys; it adds or changes no entry
\* of the backend.
C18_AttachWritesNothing ==
    AfterAttach =>
        /\ Writes = <<>>
        /\ inflight = EmptyBag
        /\ ~pending
        /\ \A n \in 1..Len(log) :
              \/ log[n].op \in {"beforeRestore", "afterRestore"}
              \/ /\ log[n].op \in {"getStorageSync", "$patch", "removeStorageSync"}
                 /\ log[n].key \in StrategyKeys
        /\ \A k \in DOMAIN storage : k \in DOMAIN storage0 /\ storage[k] = storage0[k]

C18_Witness ==
    /\ AfterAttach
    /\ phase = "attached"
    /\ installed.subscribed
    /\ Calls("$patch") >= 1
    /\ state # cfg.defaults
    /\ Writes = <<>>
    /\ inflight = EmptyBag


\* C19 (as claimed): the wrapped reset attempts the removal of every
\* strategy's key whatever the original reset does, also when it throws, and
\* a removal that throws is swallowed and does not stop the other removals.
C19_ResetAlwaysRemoves ==
    (DeclaredEnabled /\ last = "reset" /\ installed.resetWrapped) =>
        /\ Len(Removes) = Len(DeclaredStrategies)
        /\ \A i \in 1..Len(Removes) : Removes[i].key = FalsyKey(i)
        /\ ~threw


\* the backend calls that name a key
KeyedCalls ==
    SelectSeq(log, LAMBDA e : e.op \in {"getStorageSync", "setStorage", "setStorageSync",
                                        "removeStorageSync", "setStorage:success",
                                        "setStorage:fail"})

\* C20: whatever sequence of attach, notifications, resets and completions a
\* persisted store goes through, every backend call of the plugin names one
\* of the store's resolved strategy keys, and every other key of the backend
\* holds what it would hold without the plugin: its value from before, unless
\* clearStore or clearAll removed it.
C20_OnlyStrategyKeys ==
    DeclaredEnabled =>
        /\ \A n \in 1..Len(KeyedCalls) : KeyedCalls[n].key \in StrategyKeys
        /\ \A w \in BagToSet(inflight) : w.key \in StrategyKeys
        /\ \A k \in (DOMAIN storage \cup DOMAIN storage0) \ StrategyKeys :
              /\ k \in DOMAIN storage
              /\ k \in DOMAIN storage0
              /\ storage[k] = storage0[k]

C20_Witness ==
    /\ DeclaredEnabled
    /\ last = "complete"
    /\ log[1].ok
    /\ sinceReset = "clean"
    /\ getStorageSync(storage, log[1].key) # getStorageSync(storage0, log[1].key)
    /\ getStorageSync(storage, Txt("other")) = JsStr(Txt("\"keep\""))
    /\ Txt("cart") \in DOMAIN storage /\ Txt("cart") \notin StrategyKeys


====
